---- MODULE Spec2Model ----
(***************************************************************************)
(* Model of react-native-workouts: the native module                      *)
(* (ReactNativeWorkoutsModule.swift) that turns JSON-shaped workout        *)
(* configurations into WorkoutKit values, validates them against the       *)
(* platform's capability predicates and hands plans to WorkoutScheduler.   *)
(***************************************************************************)
EXTENDS Integers, Sequences, FiniteSets, TLC

(***************************************************************************)
(* Strings.  A string is its case-folded text plus the set of positions    *)
(* that hold an upper-case letter, so that String.lowercased() is an       *)
(* operation that really erases information and a literal of a switch is   *)
(* matched only by a string with no upper-case letter.                     *)
(***************************************************************************)
Cased(low, up) == [low |-> low, up |-> up]

Lit(low) == Cased(low, {})

lowercased(s) == Cased(s.low, {})

(***************************************************************************)
(* JSON values of a [String: Any] dictionary.  A key that is missing is    *)
(* Absent; a number is the rational n/d; a nested dictionary is a record   *)
(* with k = "dict".                                                        *)
(***************************************************************************)
Absent == [k |-> "absent"]

JStr(low, up) == [k |-> "str", s |-> Cased(low, up)]

JS(low) == JStr(low, {})

JNum(n, d) == [k |-> "num", n |-> n, d |-> d]

JInt(n) == JNum(n, 1)

\* `v as? String`
IsString(v) == v.k = "str"

\* `v as? Double`: every number converts
IsDouble(v) == v.k = "num"

\* `v as? Int`: only a number without fractional part converts
IsInt(v) == v.k = "num" /\ v.n % v.d = 0

\* `v as? [String: Any]`
IsDict(v) == v.k = "dict"

(***************************************************************************)
(* Double arithmetic, modelled exactly on rationals n/d in lowest terms    *)
(* with d > 0.                                                             *)
(***************************************************************************)
Abs(x) == IF x < 0 THEN -x ELSE x

RECURSIVE GCD(_, _)
GCD(a, b) == IF b = 0 THEN a ELSE GCD(b, a % b)

Rat(n, d) ==
    LET g == GCD(Abs(n), Abs(d))
        s == IF d < 0 THEN -1 ELSE 1
    IN  [n |-> s * (n \div g), d |-> s * (d \div g)]

RInt(i) == [n |-> i, d |-> 1]

\* Common factors are cancelled across the fractions before multiplying.
RMul(a, b) ==
    LET g == GCD(Abs(a.n), b.d)
        h == GCD(Abs(b.n), a.d)
    IN  Rat((a.n \div g) * (b.n \div h), (a.d \div h) * (b.d \div g))

\* a / b for b # 0
RDiv(a, b) == RMul(a, Rat(b.d, b.n))

RLe(a, b) == a.n * b.d <= b.n * a.d

RPos(a) == a.n > 0

NumOf(v) == Rat(v.n, v.d)

(***************************************************************************)
(* Results of a throwing function: a value, or an Exception(name,          *)
(* description), or a runtime trap that ends the process.                  *)
(***************************************************************************)
Ok(v) == [ok |-> TRUE, v |-> v]

\* description: desc followed by the interpolated string `about` ("" when there is none)
ErrAbout(name, desc, about) == [ok |-> FALSE, name |-> name, desc |-> desc, about |-> about]

Err(name, desc) == ErrAbout(name, desc, Lit(""))

Trap(desc) == Err("Trap", desc)

Failed(r) == ~r.ok

\* `let x = try r` followed by F(x): the error of r, or F applied to its value
Try(r, F(_)) == IF Failed(r) THEN r ELSE F(r.v)

(***************************************************************************)
(* Foundation units: Measurement(value, unit) and the linear converters    *)
(* of UnitLength, UnitDuration and UnitSpeed (coefficient to the base      *)
(* unit: meters, seconds, meters per second).  The coefficients are        *)
(* Foundation's: 1 mi = 1609.34 m, 1 km/h = 0.277778 m/s,                  *)
(* 1 mph = 0.44704 m/s.                                                    *)
(***************************************************************************)
Measurement(value, unit) == [value |-> value, unit |-> unit]

UnitCoefficient(unit) ==
    CASE unit = "meters" -> Rat(1, 1)
      [] unit = "kilometers" -> Rat(1000, 1)
      [] unit = "miles" -> Rat(160934, 100)
      [] unit = "yards" -> Rat(9144, 10000)
      [] unit = "feet" -> Rat(3048, 10000)
      [] unit = "seconds" -> Rat(1, 1)
      [] unit = "minutes" -> Rat(60, 1)
      [] unit = "hours" -> Rat(3600, 1)
      [] unit = "metersPerSecond" -> Rat(1, 1)
      [] unit = "kilometersPerHour" -> Rat(277778, 1000000)
      [] unit = "milesPerHour" -> Rat(44704, 100000)
      [] OTHER -> Rat(1, 1)

\* Measurement.converted(to: <base unit>).value
BaseValue(m) == RMul(m.value, UnitCoefficient(m.unit))

\* Measurement ==: same unit compares values, otherwise base-unit values
MeasurementEq(a, b) ==
    IF a.unit = b.unit THEN a.value = b.value ELSE BaseValue(a) = BaseValue(b)

(***************************************************************************)
(* Enumeration and unit mappers.                                           *)
(***************************************************************************)
NoValue == [some |-> FALSE]

Some(v) == [some |-> TRUE, v |-> v]

ActivityTable ==
    { <<"running", "running">>, <<"cycling", "cycling">>, <<"walking", "walking">>,
      <<"hiking", "hiking">>, <<"swimming", "swimming">>, <<"rowing", "rowing">>,
      <<"elliptical", "elliptical">>, <<"stairclimbing", "stairClimbing">>,
      <<"highintensityintervaltraining", "highIntensityIntervalTraining">>,
      <<"hiit", "highIntensityIntervalTraining">>, <<"yoga", "yoga">>,
      <<"functionalstrengthtraining", "functionalStrengthTraining">>,
      <<"traditionalstrengthtraining", "traditionalStrengthTraining">>,
      <<"dance", "cardioDance">>, <<"jumprope", "jumpRope">>,
      <<"coretraining", "coreTraining">>, <<"pilates", "pilates">>,
      <<"kickboxing", "kickboxing">>, <<"stairs", "stairs">>,
      <<"steptraining", "stepTraining">>,
      <<"wheelchairrunpace", "wheelchairRunPace">>,
      <<"wheelchairwalkpace", "wheelchairWalkPace">> }

\* The activity switch with a default activity in place of nil
parseActivityTypeDefaultingOther(type) ==
    LET t == lowercased(type)
        hit == { e \in ActivityTable : Lit(e[1]) = t }
    IN  IF hit = {} THEN Some("other") ELSE Some((CHOOSE e \in hit : TRUE)[2])

\* switch type.lowercased() { case <literal>: return <activity> ... default: return nil }
parseActivityType(type) ==
    LET t == lowercased(type)
        hit == { e \in ActivityTable : Lit(e[1]) = t }
    IN  IF hit = {} THEN NoValue ELSE Some((CHOOSE e \in hit : TRUE)[2])

\* The location switch with its default: case returning the caller's fallback, .outdoor
parseLocationTypeUnknownAsOutdoor(type) ==
    IF ~IsString(type) THEN "outdoor"
    ELSE IF lowercased(type.s) = Lit("indoor") THEN "indoor" ELSE "outdoor"

\* The argument is String?; a nil argument is Absent here.
parseLocationType(type) ==
    IF ~IsString(type) THEN "outdoor"
    ELSE LET t == lowercased(type.s)
         IN  CASE t = Lit("indoor") -> "indoor"
               [] t = Lit("outdoor") -> "outdoor"
               [] OTHER -> "unknown"

\* config["locationType"] as? String ?? "outdoor", then parseLocationType(...) ?? .outdoor
LocationOrOutdoor(v) == parseLocationType(IF IsString(v) THEN v ELSE JS("outdoor"))

\* The distance switch applied to the string as given, without lowercased()
parseSwimmingLocationType(type) ==
    IF ~IsString(type) THEN "unknown"
    ELSE LET t == lowercased(type.s)
         IN  CASE t \in {Lit("pool"), Lit("indoor")} -> "pool"
               [] t \in {Lit("openwater"), Lit("open_water"), Lit("outdoor")} -> "openWater"
               [] OTHER -> "unknown"

\* parseSwimmingLocationType(activityConfig["locationType"] as? String ?? "pool")
SwimmingLocationOrPool(v) == parseSwimmingLocationType(IF IsString(v) THEN v ELSE JS("pool"))

parseDistanceUnitCaseSensitive(unit) ==
    CASE unit \in {Lit("meters"), Lit("m")} -> "meters"
      [] unit \in {Lit("kilometers"), Lit("km")} -> "kilometers"
      [] unit \in {Lit("miles"), Lit("mi")} -> "miles"
      [] unit \in {Lit("yards"), Lit("yd")} -> "yards"
      [] unit \in {Lit("feet"), Lit("ft")} -> "feet"
      [] OTHER -> "meters"

parseDistanceUnit(unit) ==
    LET u == lowercased(unit)
    IN  CASE u \in {Lit("meters"), Lit("m")} -> "meters"
          [] u \in {Lit("kilometers"), Lit("km")} -> "kilometers"
          [] u \in {Lit("miles"), Lit("mi")} -> "miles"
          [] u \in {Lit("yards"), Lit("yd")} -> "yards"
          [] u \in {Lit("feet"), Lit("ft")} -> "feet"
          [] OTHER -> "meters"

parseTimeUnit(unit) ==
    LET u == lowercased(unit)
    IN  CASE u \in {Lit("seconds"), Lit("s"), Lit("sec")} -> "seconds"
          [] u \in {Lit("minutes"), Lit("min")} -> "minutes"
          [] u \in {Lit("hours"), Lit("h"), Lit("hr")} -> "hours"
          [] OTHER -> "seconds"

parseEnergyUnit(unit) ==
    LET u == lowercased(unit)
    IN  CASE u \in {Lit("kilocalories"), Lit("kcal"), Lit("cal")} -> "kilocalories"
          [] u \in {Lit("kilojoules"), Lit("kj")} -> "kilojoules"
          [] OTHER -> "kilocalories"

parseSpeedUnit(unit) ==
    LET u == lowercased(unit)
    IN  CASE u \in {Lit("meterspersecond"), Lit("mps"), Lit("m/s")} -> "metersPerSecond"
          [] u \in {Lit("kilometersperhour"), Lit("kph"), Lit("km/h")} -> "kilometersPerHour"
          [] u \in {Lit("milesperhour"), Lit("mph")} -> "milesPerHour"
          [] OTHER -> "metersPerSecond"

parsePaceUnit(unit) ==
    LET u == lowercased(unit)
    IN  CASE u \in {Lit("minutesperkilometer"), Lit("min/km")} -> "kilometers"
          [] u \in {Lit("minutespermile"), Lit("min/mi")} -> "miles"
          [] OTHER -> "kilometers"

\* config[key] as? String ?? <default>
StringOr(v, dflt) == IF IsString(v) THEN v.s ELSE Lit(dflt)

(***************************************************************************)
(* Goals.  A goal config is a dictionary {type, value, unit}.              *)
(***************************************************************************)
OpenGoal == [kind |-> "open"]

ValueGoal(kind, value, unit) == [kind |-> kind, value |-> value, unit |-> unit]

\* parseWorkoutGoal with a missing value read as zero instead of failing
parseWorkoutGoalDefaultingValue(config) ==
    IF ~IsString(config.type)
    THEN Err("InvalidGoal", "Goal type is required")
    ELSE LET type == lowercased(config.type.s)
             value == IF IsDouble(config.value) THEN NumOf(config.value) ELSE RInt(0)
         IN  CASE type = Lit("open") -> Ok(OpenGoal)
               [] type = Lit("distance") ->
                    Ok(ValueGoal("distance", value,
                                 parseDistanceUnit(StringOr(config.unit, "meters"))))
               [] type = Lit("time") ->
                    Ok(ValueGoal("time", value, parseTimeUnit(StringOr(config.unit, "seconds"))))
               [] type = Lit("energy") ->
                    Ok(ValueGoal("energy", value,
                                 parseEnergyUnit(StringOr(config.unit, "kilocalories"))))
               [] OTHER -> ErrAbout("InvalidGoal", "Unknown goal type: ", config.type.s)

parseWorkoutGoal(config) ==
    IF ~IsString(config.type)
    THEN Err("InvalidGoal", "Goal type is required")
    ELSE LET type == lowercased(config.type.s)
         IN  CASE type = Lit("open") -> Ok(OpenGoal)
               [] type = Lit("distance") ->
                    IF ~IsDouble(config.value)
                    THEN Err("InvalidGoal", "Distance value is required")
                    ELSE Ok(ValueGoal("distance", NumOf(config.value),
                                      parseDistanceUnit(StringOr(config.unit, "meters"))))
               [] type = Lit("time") ->
                    IF ~IsDouble(config.value)
                    THEN Err("InvalidGoal", "Time value is required")
                    ELSE Ok(ValueGoal("time", NumOf(config.value),
                                      parseTimeUnit(StringOr(config.unit, "seconds"))))
               [] type = Lit("energy") ->
                    IF ~IsDouble(config.value)
                    THEN Err("InvalidGoal", "Energy value is required")
                    ELSE Ok(ValueGoal("energy", NumOf(config.value),
                                      parseEnergyUnit(StringOr(config.unit, "kilocalories"))))
               [] OTHER -> ErrAbout("InvalidGoal", "Unknown goal type: ", config.type.s)

\* parseGoalTypeForValidation: a probe goal of the named kind, or nil
parseGoalTypeForValidation(type) ==
    LET t == lowercased(type)
    IN  CASE t = Lit("open") -> Some(OpenGoal)
          [] t = Lit("distance") -> Some(ValueGoal("distance", RInt(1), "meters"))
          [] t = Lit("time") -> Some(ValueGoal("time", RInt(1), "seconds"))
          [] t = Lit("energy") -> Some(ValueGoal("energy", RInt(1), "kilocalories"))
          [] OTHER -> NoValue

(***************************************************************************)
(* Platform versions (major * 10 + minor).  WorkoutKit needs iOS 17.0,     *)
(* PowerRangeAlert needs iOS 17.4.                                         *)
(***************************************************************************)
IOS15_1 == 151

IOS17_0 == 170

IOS17_4 == 174

Versions == {IOS15_1, IOS17_0, IOS17_4}

\* The availability check made against the deployment target instead of iOS 17.0
AvailableFromDeploymentTarget(os) == os >= IOS15_1

Available(os) == os >= IOS17_0

UnavailableError ==
    Err("Unavailable", "WorkoutKit requires iOS 17+. This API is unavailable on the current OS version.")

(***************************************************************************)
(* Alerts.  An alert config is a dictionary {type, zone, min, max, unit}.  *)
(* A parsed alert is NoAlert (nil) or one of the WorkoutKit alerts.        *)
(***************************************************************************)
NoAlert == [kind |-> "none"]

ZoneAlert(zone) == [kind |-> "heartRateZone", zone |-> zone]

RangeAlert(kind, lo, hi, unit) == [kind |-> kind, lo |-> lo, hi |-> hi, unit |-> unit]

\* Swift's `lo...hi` traps unless lo <= hi; otherwise the alert is built on the range.
ClosedRangeAlert(kind, lo, hi, unit) ==
    IF RLe(lo, hi)
    THEN Ok(RangeAlert(kind, lo, hi, unit))
    ELSE Trap("Range requires lowerBound <= upperBound")

paceRangeAlert(minMinutesPerUnit, maxMinutesPerUnit, unit) ==
    IF ~(RPos(minMinutesPerUnit) /\ RPos(maxMinutesPerUnit))
    THEN Err("InvalidAlert", "Pace min/max must be > 0")
    ELSE LET distanceMeters == BaseValue(Measurement(RInt(1), unit))
             minSeconds == RMul(minMinutesPerUnit, RInt(60))
             maxSeconds == RMul(maxMinutesPerUnit, RInt(60))
             lowSpeed == RDiv(distanceMeters, maxSeconds)
             highSpeed == RDiv(distanceMeters, minSeconds)
         IN  ClosedRangeAlert("speedRange", lowSpeed, highSpeed, "metersPerSecond")

HasMinMax(config) == IsDouble(config.min) /\ IsDouble(config.max)

\* A range alert whose min or max is missing, reported as a failure
MissingMinMaxThrows == Err("InvalidAlert", "Alert min/max are required")

\* guard let min = ..., let max = ... else { return nil }
MissingMinMax == Ok(NoAlert)

\* case "heartrate", "heart_rate": the zone first, then the range, else nil
heartRateAlert(config) ==
    IF IsInt(config.zone)
    THEN Ok(ZoneAlert(config.zone.n \div config.zone.d))
    ELSE IF HasMinMax(config)
    THEN ClosedRangeAlert("heartRateRange", NumOf(config.min), NumOf(config.max), "bpm")
    ELSE Ok(NoAlert)

parseWorkoutAlert(config, os) ==
    IF ~IsString(config.type)
    THEN Ok(NoAlert)
    ELSE LET type == lowercased(config.type.s)
         IN  CASE type \in {Lit("heartrate"), Lit("heart_rate")} -> heartRateAlert(config)
               [] type = Lit("pace") ->
                    IF ~HasMinMax(config)
                    THEN MissingMinMax
                    ELSE paceRangeAlert(NumOf(config.min), NumOf(config.max),
                             parsePaceUnit(StringOr(config.unit, "minutesPerKilometer")))
               [] type = Lit("speed") ->
                    IF ~HasMinMax(config)
                    THEN MissingMinMax
                    ELSE ClosedRangeAlert("speedRange", NumOf(config.min), NumOf(config.max),
                             parseSpeedUnit(StringOr(config.unit, "metersPerSecond")))
               [] type = Lit("cadence") ->
                    IF ~HasMinMax(config)
                    THEN MissingMinMax
                    ELSE ClosedRangeAlert("cadenceRange", NumOf(config.min),
                                          NumOf(config.max), "perMinute")
               [] type = Lit("power") ->
                    IF ~HasMinMax(config)
                    THEN MissingMinMax
                    ELSE IF os >= IOS17_4
                    THEN ClosedRangeAlert("powerRange", NumOf(config.min),
                                          NumOf(config.max), "watts")
                    ELSE Ok(NoAlert)
               [] OTHER -> Ok(NoAlert)

(***************************************************************************)
(* Pacer targets.  A target config is a dictionary {type, value, unit}.    *)
(***************************************************************************)
\* The reference distance with the mph and km/h cases exchanged
PreferredDistanceExchanged(unitStr) ==
    LET u == lowercased(unitStr)
    IN  CASE u \in {Lit("milesperhour"), Lit("mph")} -> Measurement(RInt(1), "kilometers")
          [] u \in {Lit("kilometersperhour"), Lit("kph"), Lit("km/h")} ->
                Measurement(RInt(1), "miles")
          [] OTHER -> Measurement(RInt(1000), "meters")

PreferredDistance(unitStr) ==
    LET u == lowercased(unitStr)
    IN  CASE u \in {Lit("milesperhour"), Lit("mph")} -> Measurement(RInt(1), "miles")
          [] u \in {Lit("kilometersperhour"), Lit("kph"), Lit("km/h")} ->
                Measurement(RInt(1), "kilometers")
          [] OTHER -> Measurement(RInt(1000), "meters")

\* The speed guard letting a zero speed through
SpeedNotNegative(speedMps) == speedMps.n >= 0

\* guard speedMps > 0
SpeedAccepted(speedMps) == RPos(speedMps)

parsePacerDistanceAndTime(config) ==
    IF ~IsString(config.type)
    THEN Err("InvalidTarget", "Target type is required")
    ELSE IF ~IsDouble(config.value)
    THEN Err("InvalidTarget", "Target value is required")
    ELSE LET type == lowercased(config.type.s)
             value == NumOf(config.value)
         IN  CASE type = Lit("pace") ->
                    LET lengthUnit == parsePaceUnit(StringOr(config.unit, "minutesPerKilometer"))
                    IN  Ok([distance |-> Measurement(RInt(1), lengthUnit),
                            time |-> Measurement(value, "minutes")])
               [] type = Lit("speed") ->
                    LET unitStr == StringOr(config.unit, "metersPerSecond")
                        speed == Measurement(value, parseSpeedUnit(unitStr))
                        preferredDistance == PreferredDistance(unitStr)
                        speedMps == BaseValue(speed)
                        distanceMeters == BaseValue(preferredDistance)
                    IN  IF ~SpeedAccepted(speedMps)
                        THEN Err("InvalidTarget", "Speed must be > 0")
                        ELSE Ok([distance |-> preferredDistance,
                                 time |-> Measurement(RDiv(distanceMeters, speedMps),
                                                      "seconds")])
               [] OTHER -> ErrAbout("InvalidTarget", "Unknown target type: ", config.type.s)

(***************************************************************************)
(* Steps, blocks and the custom workout.  A list in a config is            *)
(* [k |-> "list", items |-> <<...>>]; anything else fails the              *)
(* `as? [[String: Any]]` cast.                                             *)
(***************************************************************************)
JList(items) == [k |-> "list", items |-> items]

IsList(v) == v.k = "list"

WorkoutStep(goal, alert) == [goal |-> goal, alert |-> alert]

parseStepPurpose(purpose) ==
    LET p == lowercased(purpose)
    IN  CASE p = Lit("work") -> "work"
          [] p = Lit("recovery") -> "recovery"
          [] OTHER -> "work"

\* The goal and the alert of a step config, the goal first; the first failure wins.
StepParts(config, os) ==
    Try(IF IsDict(config.goal) THEN parseWorkoutGoal(config.goal) ELSE Ok(OpenGoal),
        LAMBDA goal :
            Try(IF IsDict(config.alert) THEN parseWorkoutAlert(config.alert, os)
                ELSE Ok(NoAlert),
                LAMBDA alert : Ok(WorkoutStep(goal, alert))))

parseWorkoutStep(config, os) == StepParts(config, os)

parseIntervalStep(config, os) ==
    Try(StepParts(config, os),
        LAMBDA step : Ok([purpose |-> parseStepPurpose(StringOr(config.purpose, "work")),
                          step |-> step]))

\* for stepConfig in stepsConfig { steps.append(try parseIntervalStep(from: stepConfig)) }
RECURSIVE ParseIntervalSteps(_, _)
ParseIntervalSteps(stepsConfig, os) ==
    IF stepsConfig = <<>> THEN Ok([items |-> <<>>])
    ELSE Try(parseIntervalStep(Head(stepsConfig), os),
             LAMBDA step :
                 Try(ParseIntervalSteps(Tail(stepsConfig), os),
                     LAMBDA rest : Ok([items |-> <<step>> \o rest.items])))

\* The block parser leaving a block without iterations at zero iterations
parseIntervalBlockWithoutDefault(config, os) ==
    Try(IF IsList(config.steps) THEN ParseIntervalSteps(config.steps.items, os)
        ELSE Ok([items |-> <<>>]),
        LAMBDA steps : Ok([iterations |-> IF IsInt(config.iterations)
                                          THEN config.iterations.n \div config.iterations.d
                                          ELSE 0,
                           steps |-> steps.items]))

parseIntervalBlock(config, os) ==
    Try(IF IsList(config.steps) THEN ParseIntervalSteps(config.steps.items, os)
        ELSE Ok([items |-> <<>>]),
        LAMBDA steps : Ok([iterations |-> IF IsInt(config.iterations)
                                          THEN config.iterations.n \div config.iterations.d
                                          ELSE 1,
                           steps |-> steps.items]))

\* for blockConfig in blocksConfig { blocks.append(try parseIntervalBlock(from: blockConfig)) }
RECURSIVE ParseIntervalBlocks(_, _)
ParseIntervalBlocks(blocksConfig, os) ==
    IF blocksConfig = <<>> THEN Ok([items |-> <<>>])
    ELSE Try(parseIntervalBlock(Head(blocksConfig), os),
             LAMBDA block :
                 Try(ParseIntervalBlocks(Tail(blocksConfig), os),
                     LAMBDA rest : Ok([items |-> <<block>> \o rest.items])))

\* An optional step (warmup, cooldown): nil when the key holds no dictionary.
NoStep == [present |-> FALSE]

OptionalStep(config, os) ==
    IF ~IsDict(config) THEN Ok(NoStep)
    ELSE Try(parseWorkoutStep(config, os),
             LAMBDA step : Ok([present |-> TRUE, goal |-> step.goal, alert |-> step.alert]))

\* guard let activityTypeStr = config["activityType"] as? String,
\*       let activity = self.parseActivityType(activityTypeStr)
ActivityOf(config) ==
    IF IsString(config.activityType) THEN parseActivityType(config.activityType.s) ELSE NoValue

buildCustomWorkout(config, os) ==
    IF ~ActivityOf(config).some
    THEN Err("InvalidConfig", "Invalid or missing activityType")
    ELSE Try(OptionalStep(config.warmup, os),
             LAMBDA warmup :
                 Try(OptionalStep(config.cooldown, os),
                     LAMBDA cooldown :
                         Try(IF IsList(config.blocks)
                             THEN ParseIntervalBlocks(config.blocks.items, os)
                             ELSE Ok([items |-> <<>>]),
                             LAMBDA blocks :
                                 Ok([activity |-> ActivityOf(config).v,
                                     location |-> parseLocationType(config.locationType),
                                     displayName |-> IF IsString(config.displayName)
                                                     THEN config.displayName ELSE Absent,
                                     warmup |-> warmup,
                                     blocks |-> blocks.items,
                                     cooldown |-> cooldown]))))

(***************************************************************************)
(* Capability validation.  CustomWorkout.supportsGoal / supportsAlert are  *)
(* WorkoutKit's; `caps` holds the platform's answers: the goal kinds and   *)
(* alert kinds it supports for the workout's activity and location.        *)
(***************************************************************************)
GoalKinds == {"open", "distance", "time", "energy"}

AlertKinds == {"heartRateZone", "heartRateRange", "speedRange", "cadenceRange", "powerRange"}

supportsGoal(caps, goal) == goal.kind \in caps.goals

supportsAlert(caps, alert) == alert.kind \in caps.alerts

RECURSIVE Flatten(_)
Flatten(seqs) == IF seqs = <<>> THEN <<>> ELSE Head(seqs) \o Flatten(Tail(seqs))

\* The steps visited with the cooldown left out
StepsToValidateSkippingCooldown(workout) ==
    (IF workout.warmup.present
     THEN <<WorkoutStep(workout.warmup.goal, workout.warmup.alert)>> ELSE <<>>)
    \o Flatten([b \in DOMAIN workout.blocks |->
                  [i \in DOMAIN workout.blocks[b].steps |-> workout.blocks[b].steps[i].step]])

\* The steps validateCustomWorkout visits, in its order.
StepsToValidate(workout) ==
    (IF workout.warmup.present
     THEN <<WorkoutStep(workout.warmup.goal, workout.warmup.alert)>> ELSE <<>>)
    \o (IF workout.cooldown.present
        THEN <<WorkoutStep(workout.cooldown.goal, workout.cooldown.alert)>> ELSE <<>>)
    \o Flatten([b \in DOMAIN workout.blocks |->
                  [i \in DOMAIN workout.blocks[b].steps |-> workout.blocks[b].steps[i].step]])

validateStep(caps, step) ==
    IF ~supportsGoal(caps, step.goal)
    THEN Err("ValidationError", "Unsupported workout goal for activity/location")
    ELSE IF step.alert.kind # "none" /\ ~supportsAlert(caps, step.alert)
    THEN Err("ValidationError", "Unsupported workout alert for activity/location")
    ELSE Ok([valid |-> TRUE])

validateCustomWorkout(caps, workout) ==
    LET steps == StepsToValidate(workout)
        bad == { i \in DOMAIN steps : Failed(validateStep(caps, steps[i])) }
    IN  IF bad = {} THEN Ok([valid |-> TRUE])
        ELSE validateStep(caps, steps[CHOOSE i \in bad : \A j \in bad : i <= j])

(***************************************************************************)
(* Dates.  A date config is a dictionary {year, month, day, hour, minute}; *)
(* DateComponents keeps the fields that hold an Int.                       *)
(***************************************************************************)
DateField(v) == IF IsInt(v) THEN Some(v.n \div v.d) ELSE NoValue

parseDateComponents(dict) ==
    [year |-> DateField(dict.year), month |-> DateField(dict.month),
     day |-> DateField(dict.day), hour |-> DateField(dict.hour),
     minute |-> DateField(dict.minute)]

\* A conversion that reports the fields from year to hour only
dateComponentsToDictWithoutMinute(components) ==
    LET field(c) == IF c.some THEN JInt(c.v) ELSE Absent
    IN  [year |-> field(components.year), month |-> field(components.month),
         day |-> field(components.day), hour |-> field(components.hour),
         minute |-> Absent]

dateComponentsToDict(components) ==
    LET field(c) == IF c.some THEN JInt(c.v) ELSE Absent
    IN  [year |-> field(components.year), month |-> field(components.month),
         day |-> field(components.day), hour |-> field(components.hour),
         minute |-> field(components.minute)]

(***************************************************************************)
(* State.                                                                  *)
(*   os         the platform version the module runs on                    *)
(*   args       the configuration handed to the operation under test       *)
(*   ret        the last operation and what it returned or threw           *)
(*   scheduled  WorkoutScheduler.shared.scheduledWorkouts                  *)
(*   nextUuid   the id the next WorkoutPlan(...) gets                      *)
(*   plans      the WorkoutPlan shared objects handed to the caller        *)
(*   planHook   the state of a mounted plan hook (useWorkoutPlan)          *)
(*   workoutsHook  the state of a mounted useScheduledWorkouts hook        *)
(*   removing   the removeScheduledWorkout calls that have found their     *)
(*              workout and have not removed it yet                        *)
(***************************************************************************)
VARIABLES os, args, ret, scheduled, nextUuid, plans, planHook, workoutsHook, removing

vars ==
    <<os, args, ret, scheduled, nextUuid, plans, planHook, workoutsHook, removing>>

\* The state of the two hooks
hooks == <<planHook, workoutsHook>>

\* A hook that is not rendered
NotMounted == [mounted |-> FALSE]

NoCall == [op |-> "none"]

\* UUID.uuidString: the text of a UUID, its hexadecimal digits in upper case
uuidString(uuid) == [low |-> "uuid", up |-> {1}, uuid |-> uuid]

\* UUID(uuidString:): the UUID a text spells in either letter case, nil for any other text
UUID(string) == IF "uuid" \in DOMAIN string THEN Some(string.uuid) ELSE NoValue

\* WorkoutPlan(<workout>): a plan with a fresh id
WorkoutPlan(kind, workout) == [id |-> nextUuid, kind |-> kind, workout |-> workout]

\* A plan object whose kind is the name of the WorkoutKit case that wraps the workout
WorkoutPlanObjectNamedByCase(plan, kind, config) ==
    [planHandle |-> plan, id |-> [low |-> "uuid", up |-> {1}, uuid |-> plan.id],
     kind |-> IF kind = "singleGoal" THEN "goal" ELSE kind, sourceConfig |-> config]

\* WorkoutPlanObject(planHandle:planId:kind:sourceConfig:)
WorkoutPlanObject(plan, kind, config) ==
    [planHandle |-> plan, id |-> uuidString(plan.id), kind |-> kind, sourceConfig |-> config]

\* presentWorkoutPreview: throws when there is no view controller to present from
presentWorkoutPreview(hasViewController) ==
    IF hasViewController THEN Ok([returned |-> TRUE])
    ELSE Err("NoViewController", "Unable to find a view controller to present from")

\* WorkoutScheduler.shared.schedule(plan, at: date)
ScheduleEntry(plan, date) == [id |-> plan.id, date |-> date]

\* WorkoutPlanObject.export()
export(planObject) ==
    [id |-> planObject.id, kind |-> planObject.kind, config |-> planObject.sourceConfig]

\* planHandle as? WorkoutPlan
IsWorkoutPlan(handle) == DOMAIN handle = {"id", "kind", "workout"}

\* WorkoutPlanObject.getWorkoutPlan()
getWorkoutPlan(planObject) ==
    IF IsWorkoutPlan(planObject.planHandle)
    THEN Ok(planObject.planHandle)
    ELSE Err("InvalidState", "Workout plan handle is invalid")

\* WorkoutScheduler.shared.remove(plan, at: date)
RemoveEntry(entries, entry) == SelectSeq(entries, LAMBDA e : e # entry)

\* workouts.first(where: { $0.plan.id == uuid })
FirstWithId(entries, uuid) ==
    LET at == { i \in 1..Len(entries) : entries[i].id = uuid }
    IN  IF at = {} THEN NoValue
        ELSE Some(entries[CHOOSE i \in at : \A j \in at : i <= j])

\* removeScheduledWorkout up to its second await: the guards and the workout it found in
\* the list it read
removeScheduledWorkoutFound(id) ==
    LET uuid == UUID(id)
        workout == IF uuid.some THEN FirstWithId(scheduled, uuid.v) ELSE NoValue
    IN  IF ~Available(os) THEN UnavailableError
        ELSE IF ~uuid.some THEN Err("InvalidID", "Invalid workout ID format")
        ELSE IF ~workout.some THEN Err("NotFound", "Workout not found")
        ELSE Ok(workout.v)

\* A call that has not returned: it waits at an await after having read the scheduler
Awaiting(op) == [op |-> "await", of |-> op]

\* workouts.map { ["id": $0.plan.id.uuidString, "date": dateComponentsToDict($0.date)] }
ScheduledWorkoutsList(entries) ==
    [i \in 1..Len(entries) |->
        [id |-> uuidString(entries[i].id), date |-> dateComponentsToDict(entries[i].date)]]

AuthorizationStates == {"authorized", "notDetermined", "denied", "restricted"}

authorizationStateToString(state) ==
    CASE state = "authorized" -> "authorized"
      [] state = "notDetermined" -> "notDetermined"
      [] state = "denied" -> "denied"
      [] OTHER -> "unknown"

(***************************************************************************)
(* Pacer operations.                                                       *)
(***************************************************************************)
\* The guards and parsing shared by the four pacer operations: the PacerWorkout or the error.
PacerWorkout(config) ==
    IF ~Available(os) THEN UnavailableError
    ELSE IF ~(ActivityOf(config).some /\ IsDict(config.target))
    THEN Err("InvalidConfig", "Missing required fields: activityType, target")
    ELSE Try(parsePacerDistanceAndTime(config.target),
             LAMBDA target : Ok([activity |-> ActivityOf(config).v,
                                 location |-> LocationOrOutdoor(config.locationType),
                                 distance |-> target.distance, time |-> target.time]))

(***************************************************************************)
(* The four shapes of operation built on a parsed workout `w` (a result):  *)
(* plan factory, validate-only, preview and schedule.                      *)
(***************************************************************************)
Return(op, res, plan, caps) == [op |-> op, res |-> res, plan |-> plan, caps |-> caps]

NoCaps == [goals |-> {}, alerts |-> {}, used |-> FALSE]

\* A factory that also hands the plan it made to the scheduler
PlanFactoryScheduling(op, kind, w, caps) ==
    LET plan == WorkoutPlan(kind, w.v)
    IN  /\ ret' = IF Failed(w)
                  THEN Return(op, w, NoValue, caps)
                  ELSE Return(op, Ok(WorkoutPlanObject(plan, kind, args.config)), Some(plan), caps)
        /\ nextUuid' = IF Failed(w) THEN nextUuid ELSE nextUuid + 1
        /\ plans' = IF Failed(w) THEN plans
                    ELSE plans \cup {WorkoutPlanObject(plan, kind, args.config)}
        /\ scheduled' = IF Failed(w) THEN scheduled
                        ELSE Append(scheduled,
                                    ScheduleEntry(plan, parseDateComponents(args.date)))
        /\ UNCHANGED <<hooks, removing, os, args>>

PlanFactory(op, kind, w, caps) ==
    LET plan == WorkoutPlan(kind, w.v)
    IN  /\ ret' = IF Failed(w)
                  THEN Return(op, w, NoValue, caps)
                  ELSE Return(op, Ok(WorkoutPlanObject(plan, kind, args.config)), Some(plan), caps)
        /\ nextUuid' = IF Failed(w) THEN nextUuid ELSE nextUuid + 1
        /\ plans' = IF Failed(w) THEN plans
                    ELSE plans \cup {WorkoutPlanObject(plan, kind, args.config)}
        /\ UNCHANGED <<hooks, removing, os, args, scheduled>>

ValidateOnly(op, w, displayName, caps) ==
    /\ ret' = IF Failed(w)
              THEN Return(op, w, NoValue, caps)
              ELSE Return(op, Ok([valid |-> TRUE, displayName |-> displayName]), NoValue, caps)
    /\ UNCHANGED <<hooks, removing, os, args, scheduled, nextUuid, plans>>

Preview(op, kind, w, hasViewController, caps) ==
    LET plan == WorkoutPlan(kind, w.v)
    IN  /\ ret' = IF Failed(w)
                  THEN Return(op, w, NoValue, caps)
                  ELSE Return(op, presentWorkoutPreview(hasViewController), Some(plan), caps)
        /\ nextUuid' = IF Failed(w) THEN nextUuid ELSE nextUuid + 1
        /\ UNCHANGED <<hooks, removing, os, args, scheduled, plans>>

Schedule(op, kind, w, date, caps) ==
    LET plan == WorkoutPlan(kind, w.v)
        dateComponents == parseDateComponents(date)
    IN  /\ ret' = IF Failed(w)
                  THEN Return(op, w, NoValue, caps)
                  ELSE Return(op, Ok([success |-> TRUE, id |-> uuidString(plan.id)]), Some(plan),
                              caps)
        /\ scheduled' = IF Failed(w) THEN scheduled
                        ELSE Append(scheduled, ScheduleEntry(plan, dateComponents))
        /\ nextUuid' = IF Failed(w) THEN nextUuid ELSE nextUuid + 1
        /\ UNCHANGED <<hooks, removing, os, args, plans>>

(***************************************************************************)
(* Custom workout operations.                                              *)
(***************************************************************************)
\* The warmup validated as soon as it is parsed, before cooldown and blocks are parsed
CustomWorkoutValidatingWarmupFirst(config, caps) ==
    IF ~Available(os) THEN UnavailableError
    ELSE Try(OptionalStep(config.warmup, os),
             LAMBDA warmup :
                 Try(IF warmup.present
                     THEN validateStep(caps, WorkoutStep(warmup.goal, warmup.alert))
                     ELSE Ok([valid |-> TRUE]),
                     LAMBDA checked :
                         Try(buildCustomWorkout(config, os),
                             LAMBDA workout :
                                 Try(validateCustomWorkout(caps, workout),
                                     LAMBDA valid : Ok(workout)))))

\* buildCustomWorkout followed by validateCustomWorkout: the workout or the first error.
CustomWorkout(config, caps) ==
    IF ~Available(os) THEN UnavailableError
    ELSE Try(buildCustomWorkout(config, os),
             LAMBDA workout :
                 Try(validateCustomWorkout(caps, workout), LAMBDA valid : Ok(workout)))

\* The platform's answers as far as the call consulted them.
CustomCapsUsed(config, caps) ==
    IF Available(os) /\ buildCustomWorkout(config, os).ok
    THEN [goals |-> caps.goals, alerts |-> caps.alerts, used |-> TRUE]
    ELSE NoCaps

(***************************************************************************)
(* Single-goal workout operations.                                         *)
(***************************************************************************)
\* The guards and parsing shared by the four single-goal operations.
SingleGoalWorkout(config, caps) ==
    IF ~Available(os) THEN UnavailableError
    ELSE IF ~(ActivityOf(config).some /\ IsDict(config.goal))
    THEN Err("InvalidConfig", "Missing required fields: activityType, goal")
    ELSE Try(parseWorkoutGoal(config.goal),
             LAMBDA goal :
                 IF ~supportsGoal(caps, goal)
                 THEN Err("ValidationError",
                          "Single goal workout not supported for this activity/location/goal")
                 ELSE Ok([activity |-> ActivityOf(config).v,
                          location |-> LocationOrOutdoor(config.locationType),
                          goal |-> goal]))

SingleGoalCapsUsed(config, caps) ==
    IF /\ Available(os)
       /\ ActivityOf(config).some
       /\ IsDict(config.goal)
       /\ parseWorkoutGoal(config.goal).ok
    THEN [goals |-> caps.goals, alerts |-> caps.alerts, used |-> TRUE]
    ELSE NoCaps

(***************************************************************************)
(* Multisport (swim-bike-run) plans.  SwimBikeRunWorkout's                 *)
(* supportsActivityOrdering is WorkoutKit's; `accepted` holds the          *)
(* platform's answers: the sequences of activity kinds it accepts.         *)
(***************************************************************************)
Activity(kind, location) == [kind |-> kind, location |-> location]

\* The body of the loop of parseSwimBikeRunActivities: one activity or the error.
parseSwimBikeRunActivity(activityConfig) ==
    IF ~IsString(activityConfig.type)
    THEN Err("InvalidConfig", "Each activity must have a type")
    ELSE LET type == lowercased(activityConfig.type.s)
         IN  CASE type = Lit("running") ->
                     Ok(Activity("running", LocationOrOutdoor(activityConfig.locationType)))
               [] type = Lit("cycling") ->
                     Ok(Activity("cycling", LocationOrOutdoor(activityConfig.locationType)))
               [] type = Lit("swimming") ->
                     Ok(Activity("swimming",
                                 SwimmingLocationOrPool(activityConfig.locationType)))
               [] OTHER ->
                     ErrAbout("InvalidConfig", "Unsupported SwimBikeRun activity type: ",
                              activityConfig.type.s)

\* The loop appending each activity at the front of the array
RECURSIVE parseSwimBikeRunActivitiesReversed(_)
parseSwimBikeRunActivitiesReversed(activitiesConfig) ==
    IF activitiesConfig = <<>> THEN Ok([items |-> <<>>])
    ELSE Try(parseSwimBikeRunActivity(Head(activitiesConfig)),
             LAMBDA activity :
                 Try(parseSwimBikeRunActivitiesReversed(Tail(activitiesConfig)),
                     LAMBDA rest : Ok([items |-> rest.items \o <<activity>>])))

\* for activityConfig in activitiesConfig { ... activities.append(...) }
RECURSIVE parseSwimBikeRunActivities(_)
parseSwimBikeRunActivities(activitiesConfig) ==
    IF activitiesConfig = <<>> THEN Ok([items |-> <<>>])
    ELSE Try(parseSwimBikeRunActivity(Head(activitiesConfig)),
             LAMBDA activity :
                 Try(parseSwimBikeRunActivities(Tail(activitiesConfig)),
                     LAMBDA rest : Ok([items |-> <<activity>> \o rest.items])))

RECURSIVE ActivityKinds(_)
ActivityKinds(activities) ==
    IF activities = <<>> THEN <<>>
    ELSE <<Head(activities).kind>> \o ActivityKinds(Tail(activities))

\* SwimBikeRunWorkout.supportsActivityOrdering(activities)
supportsActivityOrdering(accepted, activities) == ActivityKinds(activities) \in accepted

\* The guards and parsing of createSwimBikeRunWorkoutPlan: the SwimBikeRunWorkout or the error.
SwimBikeRunWorkout(config, accepted) ==
    IF ~Available(os) THEN UnavailableError
    ELSE IF ~IsList(config.activities)
    THEN Err("InvalidConfig", "Missing required field: activities")
    ELSE Try(parseSwimBikeRunActivities(config.activities.items),
             LAMBDA activities :
                 IF ~supportsActivityOrdering(accepted, activities.items)
                 THEN Err("ValidationError",
                          "Unsupported activity ordering for SwimBikeRun workout")
                 ELSE Ok([activities |-> activities.items,
                          displayName |-> IF IsString(config.displayName)
                                          THEN config.displayName ELSE Absent]))

\* The platform's answers as far as the call consulted them.
SwimBikeRunCapsUsed(config, accepted) ==
    IF /\ Available(os)
       /\ IsList(config.activities)
       /\ parseSwimBikeRunActivities(config.activities.items).ok
    THEN [goals |-> {}, alerts |-> {}, used |-> TRUE, orderings |-> accepted]
    ELSE NoCaps

(***************************************************************************)
(* The goal-support query supportsGoal(activityType, locationType,         *)
(* goalType): false when the activity or the goal type does not parse.     *)
(***************************************************************************)
SupportsGoalParsed(config) ==
    /\ parseActivityType(config.activityType.s).some
    /\ parseGoalTypeForValidation(config.goalType.s).some

SupportsGoalAnswer(config, caps) ==
    IF ~Available(os) THEN UnavailableError
    ELSE IF ~SupportsGoalParsed(config) THEN Ok([value |-> FALSE])
    ELSE Ok([value |-> supportsGoal(caps, parseGoalTypeForValidation(config.goalType.s).v)])

SupportsGoalCapsUsed(config, caps) ==
    IF Available(os) /\ SupportsGoalParsed(config)
    THEN [goals |-> caps.goals, alerts |-> caps.alerts, used |-> TRUE]
    ELSE NoCaps

(***************************************************************************)
(* Inputs.                                                                 *)
(***************************************************************************)
Numbers == {JInt(-1), JInt(0), JInt(4), JInt(5)}

NotANumber == {Absent, JS("ten")}

GoalTypeInputs ==
    {Absent, JInt(5), JS("open"), JS("distance"), JStr("distance", {1}), JS("time"),
     JStr("energy", {1, 2, 3, 4, 5, 6}), JS("sprint")}

GoalUnitInputs == {Absent, JS("km"), JStr("km", {1, 2}), JS("min"), JS("kj"), JS("furlongs")}

GoalConfigs ==
    [k : {"dict"}, type : GoalTypeInputs, value : {JInt(0), JInt(5), JNum(5, 2)} \cup NotANumber,
     unit : GoalUnitInputs]

HeartRateTypeInputs == {JStr("heartrate", {6}), JS("heart_rate")}

RangeTypeInputs ==
    {Absent, JS("pace"), JStr("pace", {1}), JS("speed"), JS("cadence"), JS("power"),
     JS("stride")}

AlertUnitInputs == {Absent, JStr("minutespermile", {8, 11}), JS("mph")}

AlertConfigs ==
    [k : {"dict"}, type : HeartRateTypeInputs, zone : {Absent, JInt(2), JNum(5, 2)},
     min : Numbers \cup {Absent}, max : Numbers \cup {Absent}, unit : {Absent}]
    \cup [k : {"dict"}, type : RangeTypeInputs, zone : {Absent},
          min : Numbers \cup {Absent}, max : Numbers \cup {Absent}, unit : AlertUnitInputs]

ActivityInputs ==
    {Absent, JStr("running", {1}), JS("hiit"),
     JStr("highintensityintervaltraining", {5, 14, 22}), JS("dance"), JS("jogging")}

TargetConfigs ==
    [k : {"dict"}, type : {Absent, JS("pace"), JStr("speed", {1}), JS("cadence")},
     value : {Absent, JInt(-1), JInt(0), JInt(4), JInt(15), JNum(5, 2)},
     unit : {Absent, JS("min/mi"), JS("kph"), JStr("kilometersperhour", {11, 14}), JS("mph"),
             JS("knots")}]

PacerConfigs ==
    [activityType : {Absent, JStr("running", {1}), JS("hiit"), JS("jogging")},
     locationType : {Absent}, displayName : {Absent}, target : TargetConfigs \cup {Absent}]

GoalConfig(type, value, unit) == [k |-> "dict", type |-> type, value |-> value, unit |-> unit]

AlertConfig(type, zone, min, max, unit) ==
    [k |-> "dict", type |-> type, zone |-> zone, min |-> min, max |-> max, unit |-> unit]

StepConfig(goal, alert, purpose) ==
    [k |-> "dict", goal |-> goal, alert |-> alert, purpose |-> purpose]

BlockConfig(iterations, steps) == [k |-> "dict", iterations |-> iterations, steps |-> steps]

StepGoalInputs ==
    {Absent, GoalConfig(JS("distance"), JInt(5), JS("km")),
     GoalConfig(JS("distance"), Absent, Absent)}

StepAlertInputs ==
    {Absent,
     AlertConfig(JS("heartrate"), JInt(2), Absent, Absent, Absent),
     AlertConfig(JS("heartrate"), Absent, JInt(4), Absent, Absent),
     AlertConfig(JS("pace"), Absent, JInt(4), JInt(5), Absent),
     AlertConfig(JS("pace"), Absent, JInt(0), JInt(5), Absent),
     AlertConfig(JS("speed"), Absent, JInt(0), JInt(5), JS("mph"))}

WarmupInputs ==
    {Absent} \cup { StepConfig(g, a, Absent) : g \in StepGoalInputs, a \in StepAlertInputs }

CooldownInputs ==
    {Absent,
     StepConfig(GoalConfig(JS("time"), JInt(4), JS("min")),
                AlertConfig(JS("heart_rate"), JInt(2), Absent, Absent, Absent), Absent),
     StepConfig(Absent, AlertConfig(JS("pace"), Absent, JInt(-1), JInt(5), Absent), Absent)}

WorkStep == StepConfig(GoalConfig(JS("time"), JInt(4), JS("min")), Absent, JS("work"))

RecoveryStep ==
    StepConfig(Absent, AlertConfig(JS("speed"), Absent, JInt(4), JInt(5), JS("mph")),
               JStr("recovery", {1}))

BrokenStep == StepConfig(GoalConfig(JS("sprint"), JInt(4), Absent), Absent, Absent)

BlocksInputs ==
    {Absent, JList(<<BlockConfig(JInt(2), JList(<<WorkStep>>))>>),
     JList(<<BlockConfig(JInt(2), JList(<<WorkStep, RecoveryStep>>))>>),
     JList(<<BlockConfig(Absent, JList(<<WorkStep>>)),
             BlockConfig(JInt(3), JList(<<RecoveryStep>>))>>),
     JList(<<BlockConfig(JInt(2), JList(<<WorkStep, BrokenStep>>))>>)}

CustomConfigs ==
    [activityType : {JStr("hiit", {1, 2, 3, 4}), JS("jogging")},
     locationType : {Absent}, displayName : {JS("intervals")},
     warmup : WarmupInputs, cooldown : CooldownInputs, blocks : BlocksInputs]

SingleGoalConfigs ==
    [activityType : ActivityInputs, locationType : {Absent, JS("indoor")},
     displayName : {JS("tempo")},
     goal : {Absent, GoalConfig(JS("open"), Absent, Absent),
             GoalConfig(JStr("distance", {1}), JInt(5), JS("km")),
             GoalConfig(JS("time"), JInt(4), Absent),
             GoalConfig(JS("energy"), Absent, JS("kj")),
             GoalConfig(JS("sprint"), JInt(4), Absent)}]

SupportsGoalConfigs ==
    [activityType : ActivityInputs \ {Absent},
     locationType : {JS("indoor"), JS("gym")},
     goalType : {JStr("distance", {1}), JS("energy"), JS("sprint")}]

\* The answers the platform may give: every kind supported but the named goal kinds and
\* alert kinds.
CapsBut(goals, alerts) == [goals |-> GoalKinds \ goals, alerts |-> AlertKinds \ alerts]

CapsInputs ==
    {CapsBut({}, {}), CapsBut({"open"}, {}), CapsBut({"distance"}, {}),
     CapsBut({}, {"heartRateZone"}), CapsBut({}, {"speedRange"}),
     CapsBut({"time"}, {"speedRange"})}

DateInputs ==
    { [year |-> JInt(2026), month |-> JInt(1), day |-> JInt(15), hour |-> h, minute |-> Absent]
        : h \in {Absent, JInt(7)} }

LocationInputs ==
    {Absent, JS("indoor"), JStr("indoor", {1}), JS("outdoor"), JStr("outdoor", {1, 2, 3}),
     JS("gym"), JS("pool")}

\* Configs that differ in locationType only
PacerLocationConfigs ==
    [activityType : {JS("running")}, locationType : LocationInputs, displayName : {Absent},
     target : {[k |-> "dict", type |-> JS("speed"), value |-> JInt(4), unit |-> JS("kph")]}]

CustomLocationConfigs ==
    [activityType : {JS("cycling")}, locationType : LocationInputs, displayName : {Absent},
     warmup : {Absent}, cooldown : {Absent},
     blocks : {JList(<<BlockConfig(JInt(2), JList(<<WorkStep>>))>>)}]

SingleGoalLocationConfigs ==
    [activityType : {JS("rowing")}, locationType : LocationInputs, displayName : {Absent},
     goal : {GoalConfig(JS("time"), JInt(4), JS("min"))}]

ActivityConfig(type, locationType) ==
    [k |-> "dict", type |-> type, locationType |-> locationType]

SwimLeg == ActivityConfig(JS("swimming"), Absent)

BikeLeg == ActivityConfig(JStr("cycling", {1}), JS("outdoor"))

RunLeg == ActivityConfig(JS("running"), Absent)

\* Single legs of every supported type at every location, legs that do not parse, and
\* lists of two and three legs in several orders.
ActivitiesInputs ==
    {Absent, JList(<<>>)}
        \cup { JList(<<ActivityConfig(t, l)>>) :
                 t \in {JS("running"), JS("cycling"), JStr("swimming", {1})},
                 l \in LocationInputs \cup {JStr("openwater", {1, 5})} }
        \cup { JList(<<ActivityConfig(t, Absent)>>) : t \in {Absent, JS("rowing"), JInt(1)} }
        \cup { JList(legs) :
                 legs \in { <<SwimLeg, BikeLeg, RunLeg>>, <<RunLeg, BikeLeg, SwimLeg>>,
                            <<SwimLeg, RunLeg>>, <<RunLeg, SwimLeg>>, <<BikeLeg, RunLeg>>,
                            <<SwimLeg, ActivityConfig(JS("cycling"), JS("gym")), RunLeg>>,
                            <<SwimLeg, ActivityConfig(JStr("rowing", {1}), Absent), RunLeg>>,
                            <<SwimLeg, BikeLeg, ActivityConfig(Absent, JS("indoor"))>> } }

SwimBikeRunConfigs ==
    [activities : ActivitiesInputs, displayName : {Absent, JS("triathlon")}]

ActivityKindSeqs ==
    UNION { [1..n -> {"swimming", "cycling", "running"}] : n \in 0..3 }

\* The answers the platform may give about orderings: every ordering, the orderings that
\* start with a swim or consist of one activity, and none.
OrderingInputs ==
    {ActivityKindSeqs,
     { s \in ActivityKindSeqs : Len(s) = 1 \/ (Len(s) > 1 /\ s[1] = "swimming") },
     {}}

UnitNames ==
    {"meters", "m", "kilometers", "km", "miles", "mi", "yards", "yd", "feet", "ft",
     "seconds", "s", "sec", "minutes", "min", "hours", "h", "hr",
     "kilocalories", "kcal", "cal", "kilojoules", "kj",
     "meterspersecond", "mps", "m/s", "kilometersperhour", "kph", "km/h", "milesperhour", "mph",
     "minutesperkilometer", "min/km", "minutespermile", "min/mi",
     "", "metres", "furlongs", "joules", "knots", "km/hr", "min/m"}

\* Every name in lower case, with a capital first letter and in capitals throughout.
UnitInputs ==
    { [unit |-> Cased(n, {})] : n \in UnitNames }
        \cup { [unit |-> Cased(n, {1})] : n \in UnitNames \ {""} }
        \cup { [unit |-> Cased(n, 1..Len(n))] : n \in UnitNames \ {""} }

\* The date of a call whose date is not what the call is about
DefaultDate ==
    [year |-> JInt(2026), month |-> JInt(1), day |-> JInt(15), hour |-> JInt(7),
     minute |-> Absent]

\* Every subset of the five fields, a date of zeros, and fields that hold no Int
DateDicts ==
    [year : {Absent, JInt(2026)}, month : {Absent, JInt(1)}, day : {Absent, JInt(15)},
     hour : {Absent, JInt(7)}, minute : {Absent, JInt(30)}]
        \cup [year : {JInt(2026)}, month : {JInt(1)}, day : {JInt(15)},
              hour : {JInt(0), JNum(15, 2), JS("7")}, minute : {Absent, JInt(0)}]

\* An argument list: the config, and the date for the operations that take one
DatedInputs(fam, configs, dates) ==
    { [fam |-> fam, config |-> c, date |-> d] : c \in configs, d \in dates }

Inputs(fam, configs) == DatedInputs(fam, configs, {DefaultDate})

ValidPacerConfig ==
    [activityType |-> JS("running"), locationType |-> Absent, displayName |-> Absent,
     target |-> [k |-> "dict", type |-> JS("speed"), value |-> JInt(4), unit |-> JS("kph")]]

ValidCustomConfig ==
    [activityType |-> JS("cycling"), locationType |-> Absent, displayName |-> Absent,
     warmup |-> Absent, cooldown |-> Absent,
     blocks |-> JList(<<BlockConfig(JInt(2), JList(<<WorkStep>>))>>)]

\* Custom configs that leave out goal, purpose and iterations, and the same configs with
\* the values written out
OmittingConfigs ==
    [activityType : {JS("running")}, locationType : {Absent}, displayName : {Absent},
     warmup : {Absent, StepConfig(Absent, Absent, Absent),
               StepConfig(GoalConfig(JS("open"), Absent, Absent), Absent, Absent)},
     cooldown : {StepConfig(Absent, AlertConfig(JS("heartrate"), JInt(2), Absent, Absent, Absent),
                            Absent),
                 StepConfig(GoalConfig(JS("open"), Absent, Absent),
                            AlertConfig(JS("heartrate"), JInt(2), Absent, Absent, Absent),
                            Absent)},
     blocks : {JList(<<BlockConfig(Absent, JList(<<StepConfig(Absent, Absent, Absent),
                                                   RecoveryStep>>))>>),
               JList(<<BlockConfig(JInt(1),
                                   JList(<<StepConfig(GoalConfig(JS("open"), Absent, Absent),
                                                      Absent, JS("work")),
                                           RecoveryStep>>))>>),
               JList(<<BlockConfig(JInt(3), JList(<<WorkStep>>)),
                       BlockConfig(Absent,
                                   JList(<<StepConfig(GoalConfig(JS("time"), JInt(4), Absent),
                                                      Absent, Absent)>>))>>)}]

ValidSingleGoalConfig ==
    [activityType |-> JS("rowing"), locationType |-> Absent, displayName |-> Absent,
     goal |-> GoalConfig(JS("time"), JInt(4), JS("min"))]

ValidSwimBikeRunConfig ==
    [activities |-> JList(<<SwimLeg, BikeLeg, RunLeg>>), displayName |-> JS("triathlon")]

NoConfig == [k |-> "none"]

\* The most plans a session builds and the most entries it keeps scheduled
MaxPlans == 2

MaxScheduled == 2

\* The most removeScheduledWorkout calls that wait for the scheduler at one time
MaxRemoving == 2

\* The arguments of the calls of a session: for each operation a config it accepts and
\* one it rejects.
SessionInputs ==
    DatedInputs("pacer", {ValidPacerConfig, [ValidPacerConfig EXCEPT !.target = Absent]},
                DateInputs)
        \cup DatedInputs("custom",
                         {ValidCustomConfig,
                          [ValidCustomConfig EXCEPT !.activityType = JS("jogging")]},
                         DateInputs)
        \cup DatedInputs("singleGoal",
                         {ValidSingleGoalConfig, [ValidSingleGoalConfig EXCEPT !.goal = Absent]},
                         DateInputs)
        \cup Inputs("swimBikeRun",
                    {ValidSwimBikeRunConfig, [ValidSwimBikeRunConfig EXCEPT !.activities = Absent]})
        \cup Inputs("supportsGoal",
                    {[activityType |-> JS("running"), locationType |-> JS("indoor"),
                      goalType |-> JS("energy")]})
        \cup Inputs("none", {NoConfig})
        \cup Inputs("remove", { [id |-> uuidString(n)] : n \in 1..MaxPlans }
                                  \cup {[id |-> Lit("not-a-uuid")]})

\* The arguments of a call on a plan object the caller holds
PlanInputs == DatedInputs("plan", { [plan |-> p] : p \in plans }, DateInputs)



(***************************************************************************)
(* Operations.  Each behaviour makes one call on the configuration drawn   *)
(* by Init.                                                                *)
(***************************************************************************)
Idle == ret = NoCall

\* parseWorkoutGoal(from:), reachable on iOS 17+ only
ParseWorkoutGoal ==
    /\ Idle /\ args.fam = "goal" /\ Available(os)
    /\ ret' = Return("parseWorkoutGoal", parseWorkoutGoal(args.config), NoValue, NoCaps)
    /\ UNCHANGED <<hooks, removing, os, args, scheduled, nextUuid, plans>>

\* parseWorkoutAlert(from:), reachable on iOS 17+ only
ParseWorkoutAlert ==
    /\ Idle /\ args.fam = "alert" /\ Available(os)
    /\ ret' = Return("parseWorkoutAlert", parseWorkoutAlert(args.config, os), NoValue, NoCaps)
    /\ UNCHANGED <<hooks, removing, os, args, scheduled, nextUuid, plans>>

createPacerWorkoutPlan ==
    /\ Idle /\ args.fam = "pacer"
    /\ PlanFactory("createPacerWorkoutPlan", "pacer", PacerWorkout(args.config), NoCaps)

createPacerWorkout ==
    /\ Idle /\ args.fam = "pacer"
    /\ ValidateOnly("createPacerWorkout", PacerWorkout(args.config),
                    StringOr(args.config.displayName, ""), NoCaps)

previewPacerWorkout ==
    /\ Idle /\ args.fam = "pacer"
    /\ \E hasViewController \in BOOLEAN :
          Preview("previewPacerWorkout", "pacer", PacerWorkout(args.config),
                  hasViewController, NoCaps)

schedulePacerWorkout ==
    /\ Idle /\ args.fam = "pacer"
    /\ Schedule("schedulePacerWorkout", "pacer", PacerWorkout(args.config), args.date, NoCaps)

createCustomWorkoutPlan ==
    /\ Idle /\ args.fam = "custom"
    /\ \E caps \in CapsInputs :
          PlanFactory("createCustomWorkoutPlan", "custom", CustomWorkout(args.config, caps),
                      CustomCapsUsed(args.config, caps))

createCustomWorkout ==
    /\ Idle /\ args.fam = "custom"
    /\ \E caps \in CapsInputs :
          ValidateOnly("createCustomWorkout", CustomWorkout(args.config, caps),
                       StringOr(args.config.displayName, ""),
                       CustomCapsUsed(args.config, caps))

previewWorkout ==
    /\ Idle /\ args.fam = "custom"
    /\ \E caps \in CapsInputs, hasViewController \in BOOLEAN :
          Preview("previewWorkout", "custom", CustomWorkout(args.config, caps),
                  hasViewController, CustomCapsUsed(args.config, caps))

scheduleWorkout ==
    /\ Idle /\ args.fam = "custom"
    /\ \E caps \in CapsInputs :
          Schedule("scheduleWorkout", "custom", CustomWorkout(args.config, caps), args.date,
                   CustomCapsUsed(args.config, caps))

createSingleGoalWorkoutPlan ==
    /\ Idle /\ args.fam = "singleGoal"
    /\ \E caps \in CapsInputs :
          PlanFactory("createSingleGoalWorkoutPlan", "singleGoal",
                      SingleGoalWorkout(args.config, caps),
                      SingleGoalCapsUsed(args.config, caps))

createSingleGoalWorkout ==
    /\ Idle /\ args.fam = "singleGoal"
    /\ \E caps \in CapsInputs :
          ValidateOnly("createSingleGoalWorkout", SingleGoalWorkout(args.config, caps),
                       StringOr(args.config.displayName, ""),
                       SingleGoalCapsUsed(args.config, caps))

previewSingleGoalWorkout ==
    /\ Idle /\ args.fam = "singleGoal"
    /\ \E caps \in CapsInputs, hasViewController \in BOOLEAN :
          Preview("previewSingleGoalWorkout", "singleGoal",
                  SingleGoalWorkout(args.config, caps), hasViewController,
                  SingleGoalCapsUsed(args.config, caps))

scheduleSingleGoalWorkout ==
    /\ Idle /\ args.fam = "singleGoal"
    /\ \E caps \in CapsInputs :
          Schedule("scheduleSingleGoalWorkout", "singleGoal",
                   SingleGoalWorkout(args.config, caps), args.date,
                   SingleGoalCapsUsed(args.config, caps))

\* AsyncFunction("supportsGoal")
SupportsGoal ==
    /\ Idle /\ args.fam = "supportsGoal"
    /\ \E caps \in CapsInputs :
          ret' = Return("supportsGoal", SupportsGoalAnswer(args.config, caps), NoValue,
                        SupportsGoalCapsUsed(args.config, caps))
    /\ UNCHANGED <<hooks, removing, os, args, scheduled, nextUuid, plans>>

createSwimBikeRunWorkoutPlan ==
    /\ Idle /\ args.fam = "swimBikeRun"
    /\ \E accepted \in OrderingInputs :
          PlanFactory("createSwimBikeRunWorkoutPlan", "swimBikeRun",
                      SwimBikeRunWorkout(args.config, accepted),
                      SwimBikeRunCapsUsed(args.config, accepted))

\* AsyncFunction("getAuthorizationStatus"): WorkoutScheduler.shared.authorizationState
getAuthorizationStatus ==
    /\ Idle /\ args.fam = "none"
    /\ \E state \in AuthorizationStates :
          ret' = Return("getAuthorizationStatus",
                        IF ~Available(os) THEN UnavailableError
                        ELSE Ok([status |-> authorizationStateToString(state)]),
                        NoValue, NoCaps)
    /\ UNCHANGED <<hooks, removing, os, args, scheduled, nextUuid, plans>>

\* AsyncFunction("requestAuthorization"): WorkoutScheduler.shared.requestAuthorization()
requestAuthorization ==
    /\ Idle /\ args.fam = "none"
    /\ \E state \in AuthorizationStates :
          ret' = Return("requestAuthorization",
                        IF ~Available(os) THEN UnavailableError
                        ELSE Ok([status |-> authorizationStateToString(state)]),
                        NoValue, NoCaps)
    /\ UNCHANGED <<hooks, removing, os, args, scheduled, nextUuid, plans>>

getScheduledWorkouts ==
    /\ Idle /\ args.fam = "none"
    /\ ret' = Return("getScheduledWorkouts",
                     IF ~Available(os) THEN UnavailableError
                     ELSE Ok([items |-> ScheduledWorkoutsList(scheduled)]),
                     NoValue, NoCaps)
    /\ UNCHANGED <<hooks, removing, os, args, scheduled, nextUuid, plans>>

\* removeScheduledWorkout up to `await WorkoutScheduler.shared.remove(...)`: it throws, or
\* it has found its workout in the list it read and waits for the scheduler
removeScheduledWorkout ==
    /\ Idle /\ args.fam = "remove"
    /\ LET found == removeScheduledWorkoutFound(args.config.id)
       IN  IF Failed(found)
           THEN /\ ret' = Return("removeScheduledWorkout", found, NoValue, NoCaps)
                /\ UNCHANGED removing
           ELSE /\ ret' = Awaiting("removeScheduledWorkout")
                /\ removing' = Append(removing, [args |-> args, workout |-> found.v])
    /\ UNCHANGED <<hooks, os, args, scheduled, nextUuid, plans>>

\* removeScheduledWorkout from `await WorkoutScheduler.shared.remove(workout.plan, at:
\* workout.date)` on: the workout found earlier is removed and the call returns true
removeScheduledWorkoutResumes ==
    /\ ~Idle
    /\ \E i \in 1..Len(removing) :
          /\ scheduled' = RemoveEntry(scheduled, removing[i].workout)
          /\ removing' = SubSeq(removing, 1, i - 1) \o SubSeq(removing, i + 1, Len(removing))
          /\ args' = removing[i].args
          /\ ret' = Return("removeScheduledWorkout", Ok([returned |-> TRUE]), NoValue, NoCaps)
    /\ UNCHANGED <<hooks, os, nextUuid, plans>>

removeAllScheduledWorkouts ==
    /\ Idle /\ args.fam = "none"
    /\ ret' = Return("removeAllScheduledWorkouts",
                     IF ~Available(os) THEN UnavailableError ELSE Ok([returned |-> TRUE]),
                     NoValue, NoCaps)
    /\ scheduled' = IF ~Available(os) THEN scheduled ELSE <<>>
    /\ UNCHANGED <<hooks, removing, os, args, nextUuid, plans>>

\* Function("export") of the WorkoutPlan shared object
PlanExport ==
    /\ Idle /\ args.fam = "plan"
    /\ ret' = Return("export", Ok(export(args.config.plan)), NoValue, NoCaps)
    /\ UNCHANGED <<hooks, removing, os, args, scheduled, nextUuid, plans>>

\* AsyncFunction("preview") of the WorkoutPlan shared object
PlanPreview ==
    /\ Idle /\ args.fam = "plan"
    /\ \E hasViewController \in BOOLEAN :
          ret' = Return("preview",
                        IF ~Available(os) THEN UnavailableError
                        ELSE Try(getWorkoutPlan(args.config.plan),
                                 LAMBDA plan : presentWorkoutPreview(hasViewController)),
                        NoValue, NoCaps)
    /\ UNCHANGED <<hooks, removing, os, args, scheduled, nextUuid, plans>>

\* AsyncFunction("scheduleAndSync") of the WorkoutPlan shared object
PlanScheduleAndSync ==
    /\ Idle /\ args.fam = "plan"
    /\ LET dateComponents == parseDateComponents(args.date)
           res == IF ~Available(os) THEN UnavailableError
                  ELSE Try(getWorkoutPlan(args.config.plan),
                           LAMBDA plan : Ok([success |-> TRUE, id |-> args.config.plan.id]))
       IN  /\ ret' = Return("scheduleAndSync", res, NoValue, NoCaps)
           /\ scheduled' =
                 IF Failed(res) THEN scheduled
                 ELSE Append(scheduled,
                             ScheduleEntry(getWorkoutPlan(args.config.plan).v, dateComponents))
    /\ UNCHANGED <<hooks, removing, os, args, nextUuid, plans>>

\* The caller makes its next call, also while a removeScheduledWorkout waits for the
\* scheduler: the operations that build a plan while fewer than MaxPlans were built and
\* fewer than MaxScheduled entries are scheduled, removeScheduledWorkout while fewer than
\* MaxRemoving of its calls wait.
NextCall(inputs) ==
    /\ ~Idle
    /\ ret' = NoCall
    /\ args' \in { a \in inputs :
                     /\ a.fam \in {"pacer", "custom", "singleGoal", "swimBikeRun"} =>
                           nextUuid <= MaxPlans
                     /\ a.fam \in {"pacer", "custom", "singleGoal", "plan"} =>
                           Len(scheduled) < MaxScheduled
                     /\ a.fam = "remove" => Len(removing) < MaxRemoving }
    /\ UNCHANGED <<hooks, removing, os, scheduled, nextUuid, plans>>

ParseDistanceUnit ==
    /\ Idle /\ args.fam = "unit" /\ Available(os)
    /\ ret' = Return("parseDistanceUnit", Ok(parseDistanceUnit(args.config.unit)), NoValue, NoCaps)
    /\ UNCHANGED <<hooks, removing, os, args, scheduled, nextUuid, plans>>

ParseTimeUnit ==
    /\ Idle /\ args.fam = "unit" /\ Available(os)
    /\ ret' = Return("parseTimeUnit", Ok(parseTimeUnit(args.config.unit)), NoValue, NoCaps)
    /\ UNCHANGED <<hooks, removing, os, args, scheduled, nextUuid, plans>>

ParseEnergyUnit ==
    /\ Idle /\ args.fam = "unit" /\ Available(os)
    /\ ret' = Return("parseEnergyUnit", Ok(parseEnergyUnit(args.config.unit)), NoValue, NoCaps)
    /\ UNCHANGED <<hooks, removing, os, args, scheduled, nextUuid, plans>>

ParseSpeedUnit ==
    /\ Idle /\ args.fam = "unit" /\ Available(os)
    /\ ret' = Return("parseSpeedUnit", Ok(parseSpeedUnit(args.config.unit)), NoValue, NoCaps)
    /\ UNCHANGED <<hooks, removing, os, args, scheduled, nextUuid, plans>>

ParsePaceUnit ==
    /\ Idle /\ args.fam = "unit" /\ Available(os)
    /\ ret' = Return("parsePaceUnit", Ok(parsePaceUnit(args.config.unit)), NoValue, NoCaps)
    /\ UNCHANGED <<hooks, removing, os, args, scheduled, nextUuid, plans>>

CustomOps == {"createCustomWorkoutPlan", "createCustomWorkout", "previewWorkout", "scheduleWorkout"}

SingleGoalOps ==
    {"createSingleGoalWorkoutPlan", "createSingleGoalWorkout", "previewSingleGoalWorkout",
     "scheduleSingleGoalWorkout"}

PacerOps ==
    {"createPacerWorkoutPlan", "createPacerWorkout", "previewPacerWorkout",
     "schedulePacerWorkout"}

AllInputs ==
    Inputs("goal", GoalConfigs) \cup Inputs("alert", AlertConfigs)
        \cup Inputs("pacer", PacerConfigs \cup PacerLocationConfigs)
        \cup Inputs("custom", CustomConfigs \cup CustomLocationConfigs \cup OmittingConfigs)
        \cup Inputs("singleGoal", SingleGoalConfigs \cup SingleGoalLocationConfigs)
        \cup Inputs("swimBikeRun", SwimBikeRunConfigs)
        \cup Inputs("supportsGoal", SupportsGoalConfigs)
        \cup Inputs("unit", UnitInputs)
        \cup DatedInputs("pacer", {ValidPacerConfig}, DateDicts)
        \cup DatedInputs("custom", {ValidCustomConfig}, DateDicts)
        \cup DatedInputs("singleGoal", {ValidSingleGoalConfig}, DateDicts)

Init ==
    /\ os \in Versions
    /\ args \in AllInputs
    /\ ret = NoCall
    /\ scheduled = <<>>
    /\ nextUuid = 1
    /\ plans = {}
    /\ planHook = NotMounted
    /\ workoutsHook = NotMounted
    /\ removing = <<>>

Next ==
    \/ ParseWorkoutGoal
    \/ ParseWorkoutAlert
    \/ createPacerWorkoutPlan
    \/ createPacerWorkout
    \/ previewPacerWorkout
    \/ schedulePacerWorkout
    \/ createCustomWorkoutPlan
    \/ createCustomWorkout
    \/ previewWorkout
    \/ scheduleWorkout
    \/ createSingleGoalWorkoutPlan
    \/ createSingleGoalWorkout
    \/ previewSingleGoalWorkout
    \/ scheduleSingleGoalWorkout
    \/ SupportsGoal
    \/ createSwimBikeRunWorkoutPlan
    \/ ParseDistanceUnit
    \/ ParseTimeUnit
    \/ ParseEnergyUnit
    \/ ParseSpeedUnit
    \/ ParsePaceUnit

Spec == Init /\ [][Next]_vars

(***************************************************************************)
(* A session: a sequence of calls of the module's functions and of the     *)
(* methods of the plan objects they returned.                              *)
(***************************************************************************)
SessionInit ==
    /\ os \in Versions
    /\ args \in SessionInputs
    /\ ret = NoCall
    /\ scheduled = <<>>
    /\ nextUuid = 1
    /\ plans = {}
    /\ planHook = NotMounted
    /\ workoutsHook = NotMounted
    /\ removing = <<>>

SessionNext ==
    \/ getAuthorizationStatus
    \/ requestAuthorization
    \/ SupportsGoal
    \/ createCustomWorkoutPlan
    \/ createSingleGoalWorkoutPlan
    \/ createPacerWorkoutPlan
    \/ createSwimBikeRunWorkoutPlan
    \/ createCustomWorkout
    \/ createSingleGoalWorkout
    \/ createPacerWorkout
    \/ previewWorkout
    \/ previewSingleGoalWorkout
    \/ previewPacerWorkout
    \/ scheduleWorkout
    \/ scheduleSingleGoalWorkout
    \/ schedulePacerWorkout
    \/ getScheduledWorkouts
    \/ removeScheduledWorkout
    \/ removeScheduledWorkoutResumes
    \/ removeAllScheduledWorkouts
    \/ PlanExport
    \/ PlanPreview
    \/ PlanScheduleAndSync
    \/ NextCall(SessionInputs \cup PlanInputs)

SessionSpec == SessionInit /\ [][SessionNext]_vars

(***************************************************************************)
(* Scheduling on dates: a workout or a plan is scheduled on a date         *)
(* dictionary, and the scheduled workouts are listed afterwards.           *)
(***************************************************************************)
DateCallInputs ==
    DatedInputs("pacer", {ValidPacerConfig}, DateDicts)
        \cup DatedInputs("custom", {ValidCustomConfig}, DateDicts)
        \cup DatedInputs("singleGoal", {ValidSingleGoalConfig}, DateDicts)

DatePlanInputs == DatedInputs("plan", { [plan |-> p] : p \in plans }, DateDicts)

DateInit ==
    /\ os \in Versions
    /\ args \in DateCallInputs
    /\ ret = NoCall
    /\ scheduled = <<>>
    /\ nextUuid = 1
    /\ plans = {}
    /\ planHook = NotMounted
    /\ workoutsHook = NotMounted
    /\ removing = <<>>

DateNext ==
    \/ scheduleWorkout
    \/ scheduleSingleGoalWorkout
    \/ schedulePacerWorkout
    \/ createPacerWorkoutPlan
    \/ PlanScheduleAndSync
    \/ getScheduledWorkouts
    \/ NextCall(Inputs("none", {NoConfig}) \cup DatePlanInputs)

DateSpec == DateInit /\ [][DateNext]_vars

(***************************************************************************)
(* The plan hooks (useCustomWorkout, useSingleGoalWorkout, usePacerWorkout,*)
(* useSwimBikeRunWorkout): useWorkoutPlan(config, createPlan).              *)
(*                                                                         *)
(* planHook holds the config of the last render, the React state           *)
(* (plan, isLoading, error), planRef.current, the runs of the effect (one  *)
(* per configKey, each with its own `cancelled` flag and its createPlan    *)
(* call), and how many times release() was called on each handle.  A       *)
(* render returns to React before its effects run: effects is true from    *)
(* the render that changed configKey until React runs the cleanup of the   *)
(* last effect and the next effect, and a createPlan call may settle in    *)
(* between.  React runs the effects of a render before the next render.    *)
(***************************************************************************)
\* The results of building a workout of the kind from the config
BuiltFrom(kind, config) ==
    CASE kind = "custom" -> { CustomWorkout(config, caps) : caps \in CapsInputs }
      [] kind = "singleGoal" -> { SingleGoalWorkout(config, caps) : caps \in CapsInputs }
      [] kind = "pacer" -> { PacerWorkout(config) }
      [] kind = "swimBikeRun" ->
            { SwimBikeRunWorkout(config, accepted) : accepted \in OrderingInputs }
      [] OTHER -> {}

MaxRuns == 3

NullConfig == [k |-> "null"]

UndefinedConfig == [k |-> "undefined"]

NoPlan == [k |-> "null"]

NoError == [k |-> "null"]

\* !config
Falsy(config) == config \in {NullConfig, UndefinedConfig}

\* JSON.stringify(config ?? null)
configKey(config) == [json |-> IF Falsy(config) THEN NullConfig ELSE config]

\* The configs a plan hook of the kind is rendered with
HookConfigs(kind) ==
    {NullConfig, UndefinedConfig}
        \cup CASE kind = "pacer" ->
                    {ValidPacerConfig, [ValidPacerConfig EXCEPT !.displayName = JS("tempo")],
                     [ValidPacerConfig EXCEPT !.target = Absent]}
               [] kind = "custom" ->
                    {ValidCustomConfig,
                     [ValidCustomConfig EXCEPT !.displayName = JS("tempo")],
                     [ValidCustomConfig EXCEPT !.activityType = JS("jogging")]}
               [] kind = "singleGoal" ->
                    {ValidSingleGoalConfig,
                     [ValidSingleGoalConfig EXCEPT !.displayName = JS("tempo")],
                     [ValidSingleGoalConfig EXCEPT !.goal = Absent]}
               [] kind = "swimBikeRun" ->
                    {ValidSwimBikeRunConfig,
                     [ValidSwimBikeRunConfig EXCEPT !.displayName = Absent],
                     [ValidSwimBikeRunConfig EXCEPT !.activities = Absent]}

HookKinds == {"custom", "singleGoal", "pacer", "swimBikeRun"}

\* handle.release(), and ref.current?.release() when the ref holds null
Release(h, handle) ==
    IF handle = NoPlan THEN h
    ELSE [h EXCEPT !.released[handle.planHandle.id] = @ + 1]

\* The cleanup that keeps the ref after releasing it
EffectCleanupKeepingRef(h) ==
    [Release(h, h.planRef) EXCEPT !.runs[Len(h.runs)].cancelled = TRUE]

\* return () => { cancelled = true; planRef.current?.release(); planRef.current = null }
EffectCleanup(h) ==
    [Release(h, h.planRef) EXCEPT !.runs[Len(h.runs)].cancelled = TRUE, !.planRef = NoPlan]

\* run() up to its first await, for the config of the render that started the effect
EffectRun(h, config) ==
    IF Falsy(config)
    THEN [Release(h, h.planRef) EXCEPT
             !.plan = NoPlan, !.planRef = NoPlan, !.error = NoError, !.isLoading = FALSE,
             !.runs = Append(@, [config |-> config, cancelled |-> FALSE, outcome |-> "none",
                                 handle |-> NoPlan])]
    ELSE [h EXCEPT
             !.isLoading = TRUE, !.error = NoError,
             !.runs = Append(@, [config |-> config, cancelled |-> FALSE,
                                 outcome |-> "pending", handle |-> NoPlan])]

\* finally { if (!cancelled) setIsLoading(false) }
Finally(h, i) == IF h.runs[i].cancelled THEN h ELSE [h EXCEPT !.isLoading = FALSE]

\* run() after `await createPlan(config)` resolved with nextPlan
RunResolved(h, i, nextPlan) ==
    LET known == [h EXCEPT !.released = @ @@ (nextPlan.planHandle.id :> 0),
                           !.runs[i].outcome = "plan",
                           !.runs[i].handle = nextPlan]
    IN  IF h.runs[i].cancelled
        THEN Finally(Release(known, nextPlan), i)
        ELSE Finally([Release(known, known.planRef) EXCEPT
                         !.planRef = nextPlan, !.plan = nextPlan], i)

\* A catch block that reports the error and leaves the plan state as it is
RunRejectedKeepingPlan(h, i, e) ==
    LET known == [h EXCEPT !.runs[i].outcome = "error", !.runs[i].handle = NoPlan]
    IN  IF h.runs[i].cancelled
        THEN Finally(known, i)
        ELSE Finally([Release(known, known.planRef) EXCEPT !.planRef = NoPlan, !.error = e], i)

\* run() after `await createPlan(config)` rejected with e
RunRejected(h, i, e) ==
    LET known == [h EXCEPT !.runs[i].outcome = "error", !.runs[i].handle = NoPlan]
    IN  IF h.runs[i].cancelled
        THEN Finally(known, i)
        ELSE Finally([Release(known, known.planRef) EXCEPT
                         !.plan = NoPlan, !.planRef = NoPlan, !.error = e], i)

\* The first render of the hook: it returns the initial state, its effect has not run
PlanHookMount ==
    /\ planHook = NotMounted
    /\ \E kind \in HookKinds :
          \E config \in HookConfigs(kind) :
             planHook' =
                [mounted |-> TRUE, kind |-> kind, config |-> config,
                 plan |-> NoPlan, isLoading |-> FALSE, error |-> NoError,
                 planRef |-> NoPlan, runs |-> <<>>, released |-> <<>>, effects |-> TRUE]
    /\ UNCHANGED <<workoutsHook, removing, os, args, ret, scheduled, nextUuid, plans>>

\* A render with another config: it returns the state as it is; when configKey changed,
\* the effect is due
PlanHookRender ==
    /\ planHook.mounted
    /\ ~planHook.effects
    /\ Len(planHook.runs) < MaxRuns
    /\ \E config \in HookConfigs(planHook.kind) \ {planHook.config} :
          planHook' =
             [planHook EXCEPT !.config = config,
                              !.effects = configKey(config) # configKey(planHook.config)]
    /\ UNCHANGED <<workoutsHook, removing, os, args, ret, scheduled, nextUuid, plans>>

\* React runs the effects of the last render: the cleanup of the effect before, if there
\* was one, and the effect of this render
PlanHookEffects ==
    /\ planHook.mounted
    /\ planHook.effects
    /\ planHook' =
          [EffectRun(IF planHook.runs = <<>> THEN planHook ELSE EffectCleanup(planHook),
                     planHook.config)
             EXCEPT !.effects = FALSE]
    /\ UNCHANGED <<workoutsHook, removing, os, args, ret, scheduled, nextUuid, plans>>

\* The createPlan call of a run settles: the native factory builds the plan or throws
PlanHookCreatePlanSettles ==
    /\ planHook # NotMounted
    /\ \E i \in 1..Len(planHook.runs) :
          /\ planHook.runs[i].outcome = "pending"
          /\ \E w \in BuiltFrom(planHook.kind, planHook.runs[i].config) :
                IF Failed(w)
                THEN /\ planHook' = RunRejected(planHook, i, w)
                     /\ UNCHANGED <<nextUuid, plans>>
                ELSE LET nextPlan ==
                            WorkoutPlanObject(WorkoutPlan(planHook.kind, w.v), planHook.kind,
                                              planHook.runs[i].config)
                     IN  /\ planHook' = RunResolved(planHook, i, nextPlan)
                         /\ nextUuid' = nextUuid + 1
                         /\ plans' = plans \cup {nextPlan}
    /\ UNCHANGED <<workoutsHook, removing, os, args, ret, scheduled>>

\* The component that uses the hook is removed: the cleanup of the last effect
PlanHookUnmount ==
    /\ planHook.mounted
    /\ ~planHook.effects
    /\ planHook' = [EffectCleanup(planHook) EXCEPT !.mounted = FALSE]
    /\ UNCHANGED <<workoutsHook, removing, os, args, ret, scheduled, nextUuid, plans>>

PlanHookInit ==
    /\ os \in Versions
    /\ args = [fam |-> "none", config |-> NoConfig, date |-> DefaultDate]
    /\ ret = NoCall
    /\ scheduled = <<>>
    /\ nextUuid = 1
    /\ plans = {}
    /\ planHook = NotMounted
    /\ workoutsHook = NotMounted
    /\ removing = <<>>

PlanHookNext ==
    \/ PlanHookMount
    \/ PlanHookRender
    \/ PlanHookEffects
    \/ PlanHookCreatePlanSettles
    \/ PlanHookUnmount

PlanHookSpec == PlanHookInit /\ [][PlanHookNext]_vars

(***************************************************************************)
(* useScheduledWorkouts.                                                   *)
(*                                                                         *)
(* workoutsHook holds the React state (workouts, isLoading, error) and the *)
(* calls of reload, removeAll, remove and schedule made so far.  The first *)
(* render returns before its effect, which calls reload(), has run         *)
(* (effects is true in between).  A call issues a native function; the    *)
(* native side runs it at some later point against the scheduler, on its   *)
(* own thread, and its answer reaches JavaScript at some point after that, *)
(* in any order relative to the answers of the other calls.                *)
(*                                                                         *)
(* JavaScript runs one task at a time and, after each task, the promise    *)
(* jobs queued so far, first in first out, until none is left.  jobs is    *)
(* that queue.  A task that delivers answers settles the awaited native    *)
(* promises, one or several, and queues the continuation of each           *)
(* (kind "continue"); when reload() settles inside schedule, the           *)
(* continuation of schedule after `await reload()` is queued (kind         *)
(* "return"); when a promise the component received settles, the reaction  *)
(* of the component is queued (kind "then"), which may call the hook       *)
(* again.  draining is true from the first job that runs until the queue   *)
(* is empty: in between no task runs, so no answer is delivered, no        *)
(* effect runs and the component calls the hook from a reaction only.      *)
(*                                                                         *)
(* The phases of a call:                                                   *)
(*   requested   the native function is issued and has not run             *)
(*   found       removeScheduledWorkout only: it has read the scheduled    *)
(*               workouts and found its workout there, and waits at        *)
(*               `await WorkoutScheduler.shared.remove(...)`               *)
(*   answered    it has run and its answer is on its way                   *)
(*   delivered   the answer has settled the awaited promise and the        *)
(*               continuation of the call is queued                        *)
(*   reloading   schedule only: the getScheduledWorkouts of its reload()   *)
(*               is issued and has not run                                 *)
(*   reloaded    schedule only: that getScheduledWorkouts has run          *)
(*   listDelivered  schedule only: its answer has settled the promise      *)
(*               reload() awaits and the continuation of reload() is       *)
(*               queued                                                    *)
(*   returning   schedule only: reload() has settled and the continuation  *)
(*               of schedule after `await reload()` is queued              *)
(*   resolved, rejected   the promise the call returned has settled        *)
(***************************************************************************)
MaxCalls == 3

NoAnswer == [k |-> "none"]

\* The plans the caller holds: made by createPacerWorkoutPlan where WorkoutKit is available
HeldPlans ==
    IF Failed(PacerWorkout(ValidPacerConfig)) THEN {}
    ELSE { WorkoutPlanObject([id |-> n, kind |-> "pacer",
                              workout |-> PacerWorkout(ValidPacerConfig).v],
                             "pacer", ValidPacerConfig) : n \in 1..MaxPlans }

\* A call of a function of the hook, at the point where its native function is issued;
\* caller is "effect" for the `void reload()` of the mount effect, whose promise nobody
\* receives, and "component" otherwise
HookCall(fn, arg, caller) ==
    [fn |-> fn, arg |-> arg, caller |-> caller, phase |-> "requested", found |-> NoAnswer,
     answer |-> NoAnswer, list |-> NoAnswer,
     result |-> NoAnswer, scheduleCalls |-> IF fn = "schedule" THEN 1 ELSE 0,
     listCalls |-> IF fn = "reload" THEN 1 ELSE 0]

InFlight(call) == call.phase \notin {"resolved", "rejected"}

\* setIsLoading(true); setError(null), then the native call
Started(h, call) ==
    [h EXCEPT !.isLoading = TRUE, !.error = NoError, !.calls = Append(@, call)]

\* The promise of call i has settled: the reaction of the component that received it is
\* queued
Settled(h, i) ==
    IF h.calls[i].caller = "component"
    THEN [h EXCEPT !.jobs = Append(@, [kind |-> "then", call |-> i])]
    ELSE h

\* catch { setError(err); throw err } finally { setIsLoading(false) }
Rejected(h, i, err) ==
    Settled([h EXCEPT !.error = err, !.isLoading = FALSE,
                      !.calls[i].phase = "rejected", !.calls[i].result = err], i)

\* The promise of call i resolves with value; finally { setIsLoading(false) }
Resolved(h, i, value) ==
    Settled([h EXCEPT !.isLoading = FALSE, !.calls[i].phase = "resolved",
                      !.calls[i].result = Ok(value)], i)

\* reload() after `await ReactNativeWorkouts.getScheduledWorkouts()`
reloadContinued(h, i, next) ==
    IF Failed(next) THEN Rejected(h, i, next)
    ELSE Resolved([h EXCEPT !.workouts = next.v.items], i, next.v.items)

\* removeAll() after `await ReactNativeWorkouts.removeAllScheduledWorkouts()`
removeAllContinued(h, i, answer) ==
    IF Failed(answer) THEN Rejected(h, i, answer)
    ELSE Resolved([h EXCEPT !.workouts = <<>>], i, [undefined |-> TRUE])

\* remove(id) after `await ReactNativeWorkouts.removeScheduledWorkout(id)`
removeContinued(h, i, answer) ==
    IF Failed(answer) THEN Rejected(h, i, answer)
    ELSE Resolved([h EXCEPT !.workouts = SelectSeq(@, LAMBDA w : w.id # h.calls[i].arg.id)],
                  i, [undefined |-> TRUE])

\* A schedule that resolves without reloading the list
scheduleContinuedWithoutReload(h, i, result) ==
    IF Failed(result) THEN Rejected(h, i, result)
    ELSE Resolved(h, i, [id |-> result.v.id])

\* schedule(plan, date) after `await plan.scheduleAndSync(date)`: on success it calls
\* reload(), which sets isLoading and clears error and issues getScheduledWorkouts
scheduleContinued(h, i, result) ==
    IF Failed(result) THEN Rejected(h, i, result)
    ELSE [h EXCEPT !.isLoading = TRUE, !.error = NoError,
                   !.calls[i].phase = "reloading", !.calls[i].listCalls = @ + 1]

\* The reload() of schedule(plan, date) after `await
\* ReactNativeWorkouts.getScheduledWorkouts()`: it settles, and schedule is queued to
\* resume after `await reload()`
scheduleReloaded(h, i, next) ==
    [IF Failed(next) THEN [h EXCEPT !.error = next] ELSE [h EXCEPT !.workouts = next.v.items]
        EXCEPT !.isLoading = FALSE, !.calls[i].phase = "returning",
               !.jobs = Append(@, [kind |-> "return", call |-> i])]

\* schedule(plan, date) after `await reload()`: return { id: result.id }, or the catch
\* when reload() threw
scheduleReturned(h, i) ==
    IF Failed(h.calls[i].list) THEN Rejected(h, i, h.calls[i].list)
    ELSE Resolved(h, i, [id |-> h.calls[i].answer.v.id])

\* What the next step of the native function of a call gives when it runs against the
\* scheduler: its answer, or for removeScheduledWorkout at its first step the workout found
NativeAnswer(call) ==
    CASE call.phase = "reloading" \/ call.fn = "reload" ->
            IF ~Available(os) THEN UnavailableError
            ELSE Ok([items |-> ScheduledWorkoutsList(scheduled)])
      [] call.phase = "requested" /\ call.fn = "removeAll" ->
            IF ~Available(os) THEN UnavailableError ELSE Ok([returned |-> TRUE])
      [] call.phase = "requested" /\ call.fn = "remove" ->
            removeScheduledWorkoutFound(call.arg.id)
      [] call.phase = "found" -> Ok([returned |-> TRUE])
      [] call.phase = "requested" /\ call.fn = "schedule" ->
            IF ~call.arg.alive
            THEN Err("NativeSharedObjectNotFound",
                     "Unable to find the native shared object associated with given JavaScript object")
            ELSE IF ~Available(os) THEN UnavailableError
            ELSE Try(getWorkoutPlan(call.arg.plan),
                     LAMBDA plan : Ok([success |-> TRUE, id |-> call.arg.plan.id]))

\* removeScheduledWorkout has found its workout and stops at
\* `await WorkoutScheduler.shared.remove(...)`
Suspends(call) ==
    call.phase = "requested" /\ call.fn = "remove" /\ ~Failed(NativeAnswer(call))

\* The scheduled workouts after the next step of the native function of a call
NativeScheduled(call) ==
    IF \/ Failed(NativeAnswer(call))
       \/ call.phase = "reloading" \/ call.fn = "reload"
       \/ Suspends(call)
    THEN scheduled
    ELSE CASE call.fn = "removeAll" -> <<>>
           [] call.fn = "remove" -> RemoveEntry(scheduled, call.found)
           [] call.fn = "schedule" ->
                 Append(scheduled,
                        ScheduleEntry(getWorkoutPlan(call.arg.plan).v,
                                      parseDateComponents(call.arg.date)))

\* The first render of the hook: it returns the initial state, its effect has not run
WorkoutsHookMount ==
    /\ workoutsHook = NotMounted
    /\ workoutsHook' =
          [mounted |-> TRUE, workouts |-> <<>>, isLoading |-> FALSE, error |-> NoError,
           calls |-> <<>>, jobs |-> <<>>, draining |-> FALSE, effects |-> TRUE]
    /\ UNCHANGED <<planHook, removing, os, args, ret, scheduled, nextUuid, plans>>

\* useEffect(() => { void reload(); }, [reload]): React runs the effect of the first
\* render, in a task
WorkoutsHookEffects ==
    /\ workoutsHook.mounted
    /\ workoutsHook.effects
    /\ workoutsHook.jobs = <<>>
    /\ workoutsHook' =
          [Started(workoutsHook, HookCall("reload", [id |-> Lit("")], "effect"))
             EXCEPT !.effects = FALSE]
    /\ UNCHANGED <<planHook, removing, os, args, ret, scheduled, nextUuid, plans>>

\* The component can call the hook: from a task (an event handler, or an effect that runs
\* before the effect of the hook) when no promise job is queued, or from its reaction to
\* a promise the hook returned, when that reaction is the next job.  The effect of the
\* hook keeps one of the MaxCalls calls.
CanCall(h) ==
    /\ h.mounted
    /\ Len(h.calls) + (IF h.effects THEN 1 ELSE 0) < MaxCalls
    /\ IF h.jobs = <<>> THEN TRUE ELSE Head(h.jobs).kind = "then"

\* The queue after the job at its head has run, or after a task
Dequeued(h) ==
    IF h.jobs = <<>> THEN h ELSE [h EXCEPT !.jobs = Tail(@), !.draining = Tail(h.jobs) # <<>>]

\* The component calls a function of the hook
Called(h, call) == Started(Dequeued(h), call)

\* The component calls reload()
WorkoutsHookReload ==
    /\ CanCall(workoutsHook)
    /\ workoutsHook' =
          Called(workoutsHook, HookCall("reload", [id |-> Lit("")], "component"))
    /\ UNCHANGED <<planHook, removing, os, args, ret, scheduled, nextUuid, plans>>

\* The component calls removeAll()
WorkoutsHookRemoveAll ==
    /\ CanCall(workoutsHook)
    /\ workoutsHook' =
          Called(workoutsHook, HookCall("removeAll", [id |-> Lit("")], "component"))
    /\ UNCHANGED <<planHook, removing, os, args, ret, scheduled, nextUuid, plans>>

\* The component calls remove(id) with the id of a plan, or with a text that is no UUID
WorkoutsHookRemove ==
    /\ CanCall(workoutsHook)
    /\ \E id \in { uuidString(n) : n \in 1..MaxPlans } \cup {Lit("not-a-uuid")} :
          workoutsHook' = Called(workoutsHook, HookCall("remove", [id |-> id], "component"))
    /\ UNCHANGED <<planHook, removing, os, args, ret, scheduled, nextUuid, plans>>

\* The component calls schedule(plan, date) with a plan it holds, which it may have
\* released already
WorkoutsHookSchedule ==
    /\ CanCall(workoutsHook)
    /\ \E plan \in plans, date \in DateInputs, alive \in BOOLEAN :
          workoutsHook' =
             Called(workoutsHook,
                    HookCall("schedule",
                             [id |-> plan.id, plan |-> plan, date |-> date, alive |-> alive],
                             "component"))
    /\ UNCHANGED <<planHook, removing, os, args, ret, scheduled, nextUuid, plans>>

\* The native function of a call runs up to its next await on the scheduler, or to its end
NativeRuns ==
    /\ workoutsHook.mounted
    /\ \E i \in 1..Len(workoutsHook.calls) :
          LET call == workoutsHook.calls[i]
          IN  /\ call.phase \in {"requested", "found", "reloading"}
              /\ scheduled' = NativeScheduled(call)
              /\ workoutsHook' =
                    CASE call.phase = "reloading" ->
                            [workoutsHook EXCEPT !.calls[i].phase = "reloaded",
                                                 !.calls[i].list = NativeAnswer(call)]
                      [] call.phase # "reloading" /\ Suspends(call) ->
                            [workoutsHook EXCEPT !.calls[i].phase = "found",
                                                 !.calls[i].found = NativeAnswer(call).v]
                      [] call.phase # "reloading" /\ ~Suspends(call) ->
                            [workoutsHook EXCEPT !.calls[i].phase = "answered",
                                                 !.calls[i].answer = NativeAnswer(call)]
    /\ UNCHANGED <<planHook, removing, os, args, ret, nextUuid, plans>>

\* A task delivers the answer of a native function: the promise the call awaits settles
\* and the continuation of the call is queued
AnswerArrives ==
    /\ workoutsHook.mounted
    /\ ~workoutsHook.draining
    /\ \E i \in 1..Len(workoutsHook.calls) :
          LET call == workoutsHook.calls[i]
          IN  /\ call.phase \in {"answered", "reloaded"}
              /\ workoutsHook' =
                    [workoutsHook EXCEPT
                        !.calls[i].phase =
                           IF call.phase = "answered" THEN "delivered" ELSE "listDelivered",
                        !.jobs = Append(@, [kind |-> "continue", call |-> i])]
    /\ UNCHANGED <<planHook, removing, os, args, ret, scheduled, nextUuid, plans>>

\* The next promise job runs, the continuation of a call after the native promise it
\* awaits has settled: the function of the hook continues up to its next await or to its
\* end
ContinuationRuns ==
    /\ workoutsHook.mounted
    /\ workoutsHook.jobs # <<>>
    /\ Head(workoutsHook.jobs).kind = "continue"
    /\ LET i == Head(workoutsHook.jobs).call
           call == workoutsHook.calls[i]
           h == [workoutsHook EXCEPT !.jobs = Tail(@)]
           next == CASE call.phase = "listDelivered" -> scheduleReloaded(h, i, call.list)
                     [] call.phase = "delivered" /\ call.fn = "reload" ->
                           reloadContinued(h, i, call.answer)
                     [] call.phase = "delivered" /\ call.fn = "removeAll" ->
                           removeAllContinued(h, i, call.answer)
                     [] call.phase = "delivered" /\ call.fn = "remove" ->
                           removeContinued(h, i, call.answer)
                     [] call.phase = "delivered" /\ call.fn = "schedule" ->
                           scheduleContinued(h, i, call.answer)
       IN  workoutsHook' = [next EXCEPT !.draining = next.jobs # <<>>]
    /\ UNCHANGED <<planHook, removing, os, args, ret, scheduled, nextUuid, plans>>

\* The next promise job runs, the continuation of schedule after `await reload()`
ScheduleResumes ==
    /\ workoutsHook.mounted
    /\ workoutsHook.jobs # <<>>
    /\ Head(workoutsHook.jobs).kind = "return"
    /\ LET next == scheduleReturned([workoutsHook EXCEPT !.jobs = Tail(@)],
                                    Head(workoutsHook.jobs).call)
       IN  workoutsHook' = [next EXCEPT !.draining = next.jobs # <<>>]
    /\ UNCHANGED <<planHook, removing, os, args, ret, scheduled, nextUuid, plans>>

\* The next promise job runs, the reaction of the component to a promise that settled, and
\* it does not call the hook
ReactionRuns ==
    /\ workoutsHook.mounted
    /\ workoutsHook.jobs # <<>>
    /\ Head(workoutsHook.jobs).kind = "then"
    /\ workoutsHook' = Dequeued(workoutsHook)
    /\ UNCHANGED <<planHook, removing, os, args, ret, scheduled, nextUuid, plans>>

\* What the scheduler holds when the hook mounts: nothing, or a workout that was
\* scheduled with the first held plan before
ScheduledAtMount ==
    {<<>>} \cup { <<ScheduleEntry(getWorkoutPlan(plan).v, parseDateComponents(DefaultDate))>>
                    : plan \in { p \in HeldPlans : p.planHandle.id = 1 } }

WorkoutsHookInit ==
    /\ os \in Versions
    /\ args = [fam |-> "none", config |-> NoConfig, date |-> DefaultDate]
    /\ ret = NoCall
    /\ scheduled \in ScheduledAtMount
    /\ plans = HeldPlans
    /\ nextUuid = Cardinality(plans) + 1
    /\ planHook = NotMounted
    /\ workoutsHook = NotMounted
    /\ removing = <<>>

WorkoutsHookNext ==
    \/ WorkoutsHookMount
    \/ WorkoutsHookEffects
    \/ WorkoutsHookReload
    \/ WorkoutsHookRemoveAll
    \/ WorkoutsHookRemove
    \/ WorkoutsHookSchedule
    \/ NativeRuns
    \/ AnswerArrives
    \/ ContinuationRuns
    \/ ScheduleResumes
    \/ ReactionRuns

WorkoutsHookSpec == WorkoutsHookInit /\ [][WorkoutsHookNext]_vars

(***************************************************************************)
(* Claims.                                                                 *)
(***************************************************************************)
\* The activityType of a config is a string that matches an entry of the table when
\* compared without regard to case.
ActivityRecognized(config) ==
    /\ IsString(config.activityType)
    /\ \E e \in ActivityTable : e[1] = config.activityType.s.low

\* The text of a goal's type in lower case, "" when the type is no string.
GoalTypeText(config) == IF IsString(config.type) THEN config.type.s.low ELSE ""

ValuedGoalKinds == {"distance", "time", "energy"}

GoalParsed == ret.op = "parseWorkoutGoal"

\* C3 (as stated): the goal parser fails with MissingField("type") when the goal has no
\* type, with MissingField("value") when a distance, time or energy goal has no numeric
\* value, with UnknownGoalType for any other type string, and otherwise returns the goal
\* with the given value.
C3_AsStated ==
    GoalParsed =>
        LET c == args.config
            t == GoalTypeText(c)
        IN  /\ ~IsString(c.type) => Failed(ret.res) /\ ret.res.name = "MissingField"
            /\ (t \in ValuedGoalKinds /\ ~IsDouble(c.value)) =>
                   Failed(ret.res) /\ ret.res.name = "MissingField"
            /\ (IsString(c.type) /\ t \notin GoalKinds) =>
                   Failed(ret.res) /\ ret.res.name = "UnknownGoalType"
            /\ (t = "open" \/ (t \in ValuedGoalKinds /\ IsDouble(c.value))) =>
                   /\ ret.res.ok
                   /\ ret.res.v.kind = t
                   /\ t # "open" => ret.res.v.value = NumOf(c.value)

\* C3 (amended): the goal parser throws the exception named InvalidGoal in all three
\* failure cases: "Goal type is required" when the goal has no type string,
\* "<Kind> value is required" when a distance, time or energy goal (type matched
\* case-insensitively) has no numeric value (never a goal with a default value), and
\* "Unknown goal type: <type>" for any other type string; otherwise it returns the goal of
\* that kind with the given value.
C3_GoalParserFailures ==
    GoalParsed =>
        LET c == args.config
            t == GoalTypeText(c)
        IN  /\ ~IsString(c.type) => ret.res = Err("InvalidGoal", "Goal type is required")
            /\ (t \in ValuedGoalKinds /\ ~IsDouble(c.value)) =>
                   /\ Failed(ret.res)
                   /\ ret.res.name = "InvalidGoal"
                   /\ ret.res.desc = (CASE t = "distance" -> "Distance value is required"
                                        [] t = "time" -> "Time value is required"
                                        [] t = "energy" -> "Energy value is required")
            /\ (IsString(c.type) /\ t \notin GoalKinds) =>
                   ret.res = ErrAbout("InvalidGoal", "Unknown goal type: ", c.type.s)
            /\ (t = "open" \/ (t \in ValuedGoalKinds /\ IsDouble(c.value))) =>
                   /\ ret.res.ok
                   /\ ret.res.v.kind = t
                   /\ t # "open" => ret.res.v.value = NumOf(c.value)

\* C3 witness: a distance goal without value has been parsed and was rejected.
C3_Witness ==
    /\ GoalParsed
    /\ args.config.type = JStr("distance", {1})
    /\ args.config.value = Absent
    /\ Failed(ret.res)

\* The text of an alert's type in lower case, "" when the type is no string.
AlertTypeText(config) == IF IsString(config.type) THEN config.type.s.low ELSE ""

AlertParsed == ret.op = "parseWorkoutAlert"

BothBounds(config) == config.min.k = "num" /\ config.max.k = "num"

\* The meters in one distance unit of a pace alert's unit string.
PaceUnitMeters(config) ==
    IF IsString(config.unit) /\ config.unit.s.low \in {"minutespermile", "min/mi"}
    THEN Rat(160934, 100)
    ELSE Rat(1000, 1)

InvertedPaceRange(config) ==
    RangeAlert("speedRange",
               RDiv(PaceUnitMeters(config), RMul(NumOf(config.max), RInt(60))),
               RDiv(PaceUnitMeters(config), RMul(NumOf(config.min), RInt(60))),
               "metersPerSecond")

PaceAlertWithPositiveBounds ==
    /\ AlertParsed
    /\ AlertTypeText(args.config) = "pace"
    /\ BothBounds(args.config)
    /\ args.config.min.n > 0
    /\ args.config.max.n > 0

\* C2 (as stated): every pace alert with min > 0 and max > 0 (minutes per distance unit of
\* d meters) parses to the speed range whose lower bound is d / (max * 60) m/s and whose
\* upper bound is d / (min * 60) m/s.
C2_AsStated == PaceAlertWithPositiveBounds => ret.res = Ok(InvertedPaceRange(args.config))

HeartRateAlertParsed ==
    AlertParsed /\ AlertTypeText(args.config) \in {"heartrate", "heart_rate"}

\* A custom operation was called on iOS 17+ with a recognized activity and a workout whose
\* only step is a warmup without goal whose heart-rate alert has neither an integer zone
\* nor both min and max, and the platform supports the open goal.
WarmupOnlyWithNullHeartRateAlert ==
    /\ ret.op \in CustomOps
    /\ Available(os)
    /\ ActivityRecognized(args.config)
    /\ IsDict(args.config.warmup)
    /\ args.config.warmup.goal = Absent
    /\ IsDict(args.config.warmup.alert)
    /\ AlertTypeText(args.config.warmup.alert) \in {"heartrate", "heart_rate"}
    /\ ~IsInt(args.config.warmup.alert.zone)
    /\ ~BothBounds(args.config.warmup.alert)
    /\ args.config.cooldown = Absent
    /\ ~IsList(args.config.blocks)
    /\ "open" \in ret.caps.goals

\* C7 (as stated): a heart-rate alert with an integer zone parses to the zone alert (also
\* when min and max are present); otherwise with both min and max it parses to the range
\* alert; otherwise it parses to null with no failure raised, and the enclosing step and
\* workout are constructed without that alert.
C7_AsStated ==
    /\ HeartRateAlertParsed =>
          LET c == args.config
          IN  IF IsInt(c.zone) THEN ret.res = Ok(ZoneAlert(c.zone.n \div c.zone.d))
              ELSE IF BothBounds(c)
              THEN ret.res = Ok(RangeAlert("heartRateRange", NumOf(c.min), NumOf(c.max), "bpm"))
              ELSE ret.res = Ok(NoAlert)
    /\ WarmupOnlyWithNullHeartRateAlert =>
          /\ IF ret.op = "createCustomWorkout" THEN ret.res.ok ELSE ret.plan.some
          /\ ret.plan.some =>
                /\ ret.plan.v.workout.warmup.present
                /\ ret.plan.v.workout.warmup.goal = OpenGoal
                /\ ret.plan.v.workout.warmup.alert = NoAlert

RangeKindAlertMissingBound ==
    /\ AlertParsed
    /\ AlertTypeText(args.config) \in {"pace", "speed", "cadence", "power"}
    /\ ~BothBounds(args.config)

\* C9 (as stated): a pace, speed, cadence or power alert config in which min or max is
\* missing is reported as a failure of kind InvalidAlert.
C9_AsStated ==
    RangeKindAlertMissingBound => (Failed(ret.res) /\ ret.res.name = "InvalidAlert")

\* C9 (amended): a pace, speed, cadence or power alert config in which min or max is
\* missing is dropped: it parses to null (no alert) and no failure is raised.
C9_MissingBoundDropsAlert == RangeKindAlertMissingBound => ret.res = Ok(NoAlert)

\* C9 witness: a cadence alert with min but no max has been parsed to null.
C9_Witness ==
    /\ AlertParsed
    /\ args.config.type = JS("cadence")
    /\ args.config.min = JInt(4)
    /\ args.config.max = Absent
    /\ ret.res = Ok(NoAlert)

PacerCalled == ret.op \in PacerOps

TargetTypeText(config) ==
    IF IsDict(config.target) /\ IsString(config.target.type)
    THEN config.target.type.s.low ELSE ""

TargetUnitText(config) ==
    IF IsString(config.target.unit) THEN config.target.unit.s.low ELSE ""

TargetHasNumber(config) == IsDict(config.target) /\ config.target.value.k = "num"

\* A pacer operation has been called with a speed target whose value is <= 0.
NonPositiveSpeedTarget ==
    /\ PacerCalled
    /\ TargetTypeText(args.config) = "speed"
    /\ TargetHasNumber(args.config)
    /\ args.config.target.value.n <= 0

\* C4: a pacer target of type speed with value <= 0, in any unit, makes every pacer
\* operation fail, with no plan built and nothing scheduled; the failure is InvalidTarget
\* ("Speed must be > 0") whenever the call gets as far as the target, that is on iOS 17+
\* with a recognized activityType.
C4_NonPositiveSpeedRejected ==
    NonPositiveSpeedTarget =>
        /\ Failed(ret.res)
        /\ ret.plan = NoValue
        /\ scheduled = <<>>
        /\ nextUuid = 1
        /\ (Available(os) /\ ActivityRecognized(args.config)) =>
               ret.res = Err("InvalidTarget", "Speed must be > 0")

\* C4 witness: schedulePacerWorkout was called with speed 0 in an unrecognized unit and
\* threw InvalidTarget.
C4_Witness ==
    /\ ret.op = "schedulePacerWorkout"
    /\ TargetTypeText(args.config) = "speed"
    /\ args.config.target.value = JInt(0)
    /\ args.config.target.unit = JS("knots")
    /\ Failed(ret.res)
    /\ ret.res.name = "InvalidTarget"

\* The reference distance and the speed coefficient C5 names for a speed unit string.
ReferenceDistance(unitText) ==
    CASE unitText \in {"milesperhour", "mph"} -> Measurement(RInt(1), "miles")
      [] unitText \in {"kilometersperhour", "kph", "km/h"} -> Measurement(RInt(1), "kilometers")
      [] OTHER -> Measurement(RInt(1000), "meters")

MetersPerSecond(value, unitText) ==
    CASE unitText \in {"milesperhour", "mph"} -> RMul(value, Rat(44704, 100000))
      [] unitText \in {"kilometersperhour", "kph", "km/h"} -> RMul(value, Rat(277778, 1000000))
      [] OTHER -> value

PositiveSpeedTarget ==
    /\ PacerCalled
    /\ TargetTypeText(args.config) = "speed"
    /\ TargetHasNumber(args.config)
    /\ args.config.target.value.n > 0

\* C5: for a pacer target of type speed with value > 0 the workout is built on the
\* reference distance 1 mile for an mph unit string, 1 kilometer for a km/h unit string and
\* 1000 meters for any other unit string, and on the duration of
\* (reference distance in meters) / (speed in meters per second) seconds.
C5_SpeedTargetResolution ==
    (PositiveSpeedTarget /\ Available(os) /\ ActivityRecognized(args.config)) =>
        LET unitText == TargetUnitText(args.config)
            reference == ReferenceDistance(unitText)
            mps == MetersPerSecond(NumOf(args.config.target.value), unitText)
        IN  /\ ret.op # "createPacerWorkout" => ret.plan.some
            /\ ret.plan.some =>
                  /\ ret.plan.v.workout.distance = reference
                  /\ ret.plan.v.workout.time =
                        Measurement(RDiv(BaseValue(reference), mps), "seconds")

\* C5 witness: a plan was created for 15 mph: 1 mile in 1609.34 / (15 * 0.44704) seconds.
C5_Witness ==
    /\ ret.op = "createPacerWorkoutPlan"
    /\ args.config.target # Absent
    /\ args.config.target.type = JStr("speed", {1})
    /\ args.config.target.value = JInt(15)
    /\ args.config.target.unit = JS("mph")
    /\ ret.res.ok
    /\ ret.plan.v.workout.distance = Measurement(RInt(1), "miles")
    /\ ret.plan.v.workout.time = Measurement(Rat(160934 * 1000, 15 * 44704), "seconds")

\* The speed target equivalent to a pace of v minutes per unit: 60 / v units per hour.
EquivalentSpeedTarget(v, lengthUnit) ==
    [k |-> "dict", type |-> JS("speed"), value |-> JNum(60 * v.d, v.n),
     unit |-> IF lengthUnit = "miles" THEN JS("mph") ELSE JS("kph")]

\* C6 (as stated): a pace of v minutes per kilometer (per mile) resolves to 1 kilometer
\* (1 mile) in 60 * v seconds, and the speed target of 60 / v kilometers (miles) per hour
\* resolves to a value-equal (distance, duration) pair.
C6_AsStated ==
    (PacerCalled /\ ret.plan.some /\ TargetTypeText(args.config) = "pace"
        /\ args.config.target.value.n > 0) =>
        LET v == NumOf(args.config.target.value)
            lengthUnit == IF TargetUnitText(args.config) \in {"minutespermile", "min/mi"}
                          THEN "miles" ELSE "kilometers"
            asPace == ret.plan.v.workout
            asSpeed == parsePacerDistanceAndTime(EquivalentSpeedTarget(v, lengthUnit))
        IN  /\ MeasurementEq(asPace.distance, Measurement(RInt(1), lengthUnit))
            /\ MeasurementEq(asPace.time, Measurement(RMul(v, RInt(60)), "seconds"))
            /\ asSpeed.ok
            /\ MeasurementEq(asSpeed.v.distance, asPace.distance)
            /\ MeasurementEq(asSpeed.v.time, asPace.time)

CustomCalled == ret.op \in CustomOps

\* The steps of a built custom workout: warmup, cooldown and every step of every block.
EveryStep(w) ==
    (IF w.warmup.present THEN {WorkoutStep(w.warmup.goal, w.warmup.alert)} ELSE {})
    \cup (IF w.cooldown.present THEN {WorkoutStep(w.cooldown.goal, w.cooldown.alert)} ELSE {})
    \cup UNION { { w.blocks[b].steps[i].step : i \in DOMAIN w.blocks[b].steps } :
                   b \in DOMAIN w.blocks }

\* The platform supports the step's goal and, when the step has an alert, its alert.
StepSupported(caps, step) ==
    /\ step.goal.kind \in caps.goals
    /\ step.alert.kind # "none" => step.alert.kind \in caps.alerts

\* The custom workout of the call is constructed: the validating operation returned, the
\* others built a plan on it.
CustomConstructed == IF ret.op = "createCustomWorkout" THEN ret.res.ok ELSE ret.plan.some

\* C1: a custom workout whose config parses is constructed if and only if supportsGoal
\* holds for every step's goal and supportsAlert for every step's alert, over warmup,
\* cooldown and all block steps; otherwise the operation fails with ValidationError, no
\* plan exists and nothing is scheduled.
C1_ValidationGate ==
    (CustomCalled /\ Available(os) /\ buildCustomWorkout(args.config, os).ok) =>
        LET workout == buildCustomWorkout(args.config, os).v
            supported == \A step \in EveryStep(workout) : StepSupported(ret.caps, step)
        IN  /\ ret.caps.used
            /\ CustomConstructed <=> supported
            /\ (supported /\ ret.plan.some) => ret.plan.v.workout = workout
            /\ (supported /\ ret.op = "scheduleWorkout") =>
                   /\ Len(scheduled) = 1
                   /\ scheduled[1].id = ret.plan.v.id
            /\ ~supported =>
                   /\ Failed(ret.res)
                   /\ ret.res.name = "ValidationError"
                   /\ ret.plan = NoValue
                   /\ scheduled = <<>>
                   /\ nextUuid = 1

\* C1 witness: scheduleWorkout was called on a workout whose warmup is supported and whose
\* cooldown carries a heart-rate zone alert the platform does not support; it threw
\* ValidationError and scheduled nothing.
C1_Witness ==
    /\ ret.op = "scheduleWorkout"
    /\ ret.caps.used
    /\ ret.caps.goals = GoalKinds
    /\ "heartRateZone" \notin ret.caps.alerts
    /\ IsDict(args.config.warmup)
    /\ args.config.warmup.alert = Absent
    /\ IsDict(args.config.cooldown)
    /\ args.config.blocks = Absent
    /\ ret.res = Err("ValidationError", "Unsupported workout alert for activity/location")
    /\ scheduled = <<>>

AnyOps == CustomOps \cup SingleGoalOps \cup PacerOps

\* The canonical activity of a recognized activityType string.
CanonicalActivity(config) ==
    (CHOOSE e \in ActivityTable : e[1] = config.activityType.s.low)[2]

\* The spellings of the activity table are its lower-case keys; "hiit" and
\* "highintensityintervaltraining" name the same activity and no key names two.
ActivityTableFunctional ==
    /\ \A e, f \in ActivityTable : e[1] = f[1] => e[2] = f[2]
    /\ <<"hiit", "highIntensityIntervalTraining">> \in ActivityTable
    /\ <<"highintensityintervaltraining", "highIntensityIntervalTraining">> \in ActivityTable

\* The call got past the activityType: it returned, or it threw something other than
\* InvalidConfig("... activityType ...").
ActivityAccepted ==
    ret.res.ok \/ ret.res.name # "InvalidConfig"
        \/ (ret.op \in PacerOps /\ ~IsDict(args.config.target))
        \/ (ret.op \in SingleGoalOps /\ ~IsDict(args.config.goal))

\* C10 (as stated): activityType is matched case-insensitively against the fixed table,
\* "hiit" maps to the same activity as "highintensityintervaltraining", a matching string
\* maps to exactly one canonical activity, and a string that matches no entry makes the
\* operation fail with a typed failure in every operation, the goal-support query included.
C10_AsStated ==
    /\ ActivityTableFunctional
    /\ (ret.op \in AnyOps /\ ret.plan.some) =>
           /\ ActivityRecognized(args.config)
           /\ ret.plan.v.workout.activity = CanonicalActivity(args.config)
    /\ (ret.op \in AnyOps \cup {"supportsGoal"} /\ IsString(args.config.activityType)
          /\ ~ActivityRecognized(args.config)) => Failed(ret.res)

\* C10 (amended): activityType is matched case-insensitively against the fixed table,
\* "hiit" maps to the same activity as "highintensityintervaltraining", and a matching
\* string maps to exactly one canonical activity.  A string that matches no entry makes
\* every workout operation (plan factory, validation, preview, schedule) fail with no plan
\* built and nothing scheduled, the failure being InvalidConfig on iOS 17+; the
\* goal-support query supportsGoal does not fail for such a string: it answers false
\* without consulting the platform.
C10_ActivityTypeMatching ==
    /\ ActivityTableFunctional
    /\ (ret.op \in AnyOps /\ ret.plan.some) =>
           /\ ActivityRecognized(args.config)
           /\ ret.plan.v.workout.activity = CanonicalActivity(args.config)
    /\ (ret.op \in AnyOps /\ Available(os) /\ ActivityRecognized(args.config)) =>
           ActivityAccepted
    /\ (ret.op \in AnyOps /\ IsString(args.config.activityType)
          /\ ~ActivityRecognized(args.config)) =>
           /\ Failed(ret.res)
           /\ Available(os) => ret.res.name = "InvalidConfig"
           /\ ret.plan = NoValue
           /\ scheduled = <<>>
           /\ nextUuid = 1
    /\ (ret.op = "supportsGoal" /\ Available(os) /\ ~ActivityRecognized(args.config)) =>
           /\ ret.res = Ok([value |-> FALSE])
           /\ ~ret.caps.used

\* C10 witness: createSingleGoalWorkoutPlan was called with "HighIntensityIntervalTraining"
\* in mixed case and built a plan for highIntensityIntervalTraining.
C10_Witness ==
    /\ ret.op = "createSingleGoalWorkoutPlan"
    /\ args.config.activityType = JStr("highintensityintervaltraining", {5, 14, 22})
    /\ ret.res.ok
    /\ ret.plan.v.workout.activity = "highIntensityIntervalTraining"

\* C8 (as stated): a pace-range or speed-range alert is constructed only when min > 0 and
\* max > 0: an alert of type pace or speed whose min or max is <= 0 fails to parse, and no
\* workout containing a speed range with a bound <= 0 is ever produced.
C8_AsStated ==
    /\ (AlertParsed /\ AlertTypeText(args.config) \in {"pace", "speed"}) =>
          LET c == args.config
              positive == BothBounds(c) /\ c.min.n > 0 /\ c.max.n > 0
          IN  /\ (ret.res.ok /\ ret.res.v.kind = "speedRange") => positive
              /\ (BothBounds(c) /\ ~positive) => Failed(ret.res)
    /\ (CustomCalled /\ ret.plan.some) =>
          \A step \in EveryStep(ret.plan.v.workout) :
              step.alert.kind = "speedRange" => RPos(step.alert.lo) /\ RPos(step.alert.hi)

\* The five unit mappers.
UnitOps ==
    {"parseDistanceUnit", "parseTimeUnit", "parseEnergyUnit", "parseSpeedUnit", "parsePaceUnit"}

\* The aliases each mapper lists: <<mapper, alias, full name of the unit>>.
UnitAliases ==
    { <<"parseDistanceUnit", "meters", "meters">>, <<"parseDistanceUnit", "m", "meters">>,
      <<"parseDistanceUnit", "kilometers", "kilometers">>,
      <<"parseDistanceUnit", "km", "kilometers">>,
      <<"parseDistanceUnit", "miles", "miles">>, <<"parseDistanceUnit", "mi", "miles">>,
      <<"parseDistanceUnit", "yards", "yards">>, <<"parseDistanceUnit", "yd", "yards">>,
      <<"parseDistanceUnit", "feet", "feet">>, <<"parseDistanceUnit", "ft", "feet">>,
      <<"parseTimeUnit", "seconds", "seconds">>, <<"parseTimeUnit", "s", "seconds">>,
      <<"parseTimeUnit", "sec", "seconds">>, <<"parseTimeUnit", "minutes", "minutes">>,
      <<"parseTimeUnit", "min", "minutes">>, <<"parseTimeUnit", "hours", "hours">>,
      <<"parseTimeUnit", "h", "hours">>, <<"parseTimeUnit", "hr", "hours">>,
      <<"parseEnergyUnit", "kilocalories", "kilocalories">>,
      <<"parseEnergyUnit", "kcal", "kilocalories">>,
      <<"parseEnergyUnit", "cal", "kilocalories">>,
      <<"parseEnergyUnit", "kilojoules", "kilojoules">>,
      <<"parseEnergyUnit", "kj", "kilojoules">>,
      <<"parseSpeedUnit", "meterspersecond", "meterspersecond">>,
      <<"parseSpeedUnit", "mps", "meterspersecond">>,
      <<"parseSpeedUnit", "m/s", "meterspersecond">>,
      <<"parseSpeedUnit", "kilometersperhour", "kilometersperhour">>,
      <<"parseSpeedUnit", "kph", "kilometersperhour">>,
      <<"parseSpeedUnit", "km/h", "kilometersperhour">>,
      <<"parseSpeedUnit", "milesperhour", "milesperhour">>,
      <<"parseSpeedUnit", "mph", "milesperhour">>,
      <<"parsePaceUnit", "minutesperkilometer", "minutesperkilometer">>,
      <<"parsePaceUnit", "min/km", "minutesperkilometer">>,
      <<"parsePaceUnit", "minutespermile", "minutespermile">>,
      <<"parsePaceUnit", "min/mi", "minutespermile">> }

\* The canonical units, two different full names never sharing one.
FullNameUnit ==
    { <<"meters", "meters">>, <<"kilometers", "kilometers">>, <<"miles", "miles">>,
      <<"yards", "yards">>, <<"feet", "feet">>, <<"seconds", "seconds">>,
      <<"minutes", "minutes">>, <<"hours", "hours">>, <<"kilocalories", "kilocalories">>,
      <<"kilojoules", "kilojoules">>, <<"meterspersecond", "metersPerSecond">>,
      <<"kilometersperhour", "kilometersPerHour">>, <<"milesperhour", "milesPerHour">>,
      <<"minutesperkilometer", "kilometers">>, <<"minutespermile", "miles">> }

BaseUnit(op) ==
    CASE op = "parseDistanceUnit" -> "meters"
      [] op = "parseTimeUnit" -> "seconds"
      [] op = "parseEnergyUnit" -> "kilocalories"
      [] op = "parseSpeedUnit" -> "metersPerSecond"
      [] op = "parsePaceUnit" -> "kilometers"

UnitMapper(op, unit) ==
    CASE op = "parseDistanceUnit" -> parseDistanceUnit(unit)
      [] op = "parseTimeUnit" -> parseTimeUnit(unit)
      [] op = "parseEnergyUnit" -> parseEnergyUnit(unit)
      [] op = "parseSpeedUnit" -> parseSpeedUnit(unit)
      [] op = "parsePaceUnit" -> parsePaceUnit(unit)

\* The entries of the mapper's alias list that the string matches without regard to case.
AliasesMatched(op, unit) ==
    { e \in UnitAliases : e[1] = op /\ Lit(e[2]) = lowercased(unit) }

\* C11: a unit mapper never fails; a string that is, in any letter case, a listed alias of
\* a unit maps to the unit that the unit's full name maps to, which is the canonical unit
\* of that name; every other string maps to the mapper's base unit (meters, seconds,
\* kilocalories, meters per second, kilometers).
C11_UnitMappersTotal ==
    ret.op \in UnitOps =>
        /\ ret.res.ok
        /\ \A e \in AliasesMatched(ret.op, args.config.unit) :
              /\ ret.res.v = UnitMapper(ret.op, Lit(e[3]))
              /\ <<e[3], ret.res.v>> \in FullNameUnit
        /\ AliasesMatched(ret.op, args.config.unit) = {} => ret.res.v = BaseUnit(ret.op)

\* A distance unit written "KM" has been mapped to kilometers.
C11_Witness ==
    /\ ret.op = "parseDistanceUnit"
    /\ args.config.unit = Cased("km", {1, 2})
    /\ ret.res.v = "kilometers"

\* The location a locationType stands for: indoor and outdoor by name in any letter case,
\* outdoor when it is absent, unknown for any other string.
LocationNamed(locationType) ==
    IF locationType = Absent THEN "outdoor"
    ELSE IF lowercased(locationType.s) = Lit("indoor") THEN "indoor"
    ELSE IF lowercased(locationType.s) = Lit("outdoor") THEN "outdoor"
    ELSE "unknown"

\* The leg configs of a multisport call and the activities of the plan it returned.
LegConfigs == args.config.activities.items

LegsBuilt == ret.plan.v.workout.activities

\* Configs whose only varying field is locationType, every other field being valid.
LocationOnlyConfigs ==
    Inputs("pacer", PacerLocationConfigs) \cup Inputs("custom", CustomLocationConfigs)
        \cup Inputs("singleGoal", SingleGoalLocationConfigs)

\* C12: the workout built by a custom, single-goal or pacer operation has the location its
\* locationType names ("indoor"/"outdoor" in any letter case; unknown for any other
\* string; outdoor when absent), and so has every running or cycling leg of a multisport
\* plan; a swimming leg without locationType is a pool swim.  The locationType never makes
\* a call fail: a call on an otherwise valid config fails only for a capability or a
\* missing view controller.
C12_LocationResolution ==
    /\ (ret.op \in CustomOps \cup SingleGoalOps \cup PacerOps /\ ret.plan.some) =>
          ret.plan.v.workout.location = LocationNamed(args.config.locationType)
    /\ (ret.op = "createSwimBikeRunWorkoutPlan" /\ ret.plan.some) =>
          /\ Len(LegsBuilt) = Len(LegConfigs)
          /\ \A i \in 1..Len(LegConfigs) :
                /\ LegsBuilt[i].kind \in {"running", "cycling"} =>
                      LegsBuilt[i].location = LocationNamed(LegConfigs[i].locationType)
                /\ (LegsBuilt[i].kind = "swimming" /\ LegConfigs[i].locationType = Absent) =>
                      LegsBuilt[i].location = "pool"
    /\ (args \in LocationOnlyConfigs /\ Available(os) /\ ~Idle /\ Failed(ret.res)) =>
          ret.res.name \in {"ValidationError", "NoViewController"}

\* A multisport plan was built from a swim and a run without locationType and a ride at
\* "gym": a pool swim, a ride at an unknown location and an outdoor run.
C12_Witness ==
    /\ ret.op = "createSwimBikeRunWorkoutPlan"
    /\ ret.res.ok
    /\ LegConfigs = <<SwimLeg, ActivityConfig(JS("cycling"), JS("gym")), RunLeg>>
    /\ LegsBuilt = <<Activity("swimming", "pool"), Activity("cycling", "unknown"),
                     Activity("running", "outdoor")>>

\* The operations the availability guard protects (export, which reads three stored
\* fields, has none).
GuardedOps ==
    CustomOps \cup SingleGoalOps \cup PacerOps
        \cup {"createSwimBikeRunWorkoutPlan", "supportsGoal", "getAuthorizationStatus",
              "requestAuthorization", "getScheduledWorkouts", "removeScheduledWorkout",
              "removeAllScheduledWorkouts", "preview", "scheduleAndSync"}

\* C13: on a platform below iOS 17.0 every call of a session, whatever its arguments are,
\* has failed with the one Unavailable error, no capability predicate was consulted, and
\* the scheduler holds what it held before the first call: nothing; no plan object exists
\* and no plan id was taken.
C13_UnavailableBelowMinimum ==
    (os < IOS17_0 /\ ~Idle) =>
        /\ ret.op \in GuardedOps
        /\ ret.res = UnavailableError
        /\ ret.plan = NoValue
        /\ ~ret.caps.used
        /\ scheduled = <<>>
        /\ plans = {}
        /\ nextUuid = 1

\* scheduleWorkout was called on iOS 15.1 with a config whose activityType is unknown.
C13_Witness ==
    /\ os = IOS15_1
    /\ ret.op = "scheduleWorkout"
    /\ args.config.activityType = JS("jogging")
    /\ ret.res = UnavailableError

\* The operations that consult a capability predicate.
ValidatingOps == CustomOps \cup SingleGoalOps \cup {"createSwimBikeRunWorkoutPlan"}

\* What structural parsing of the call's config gives: the parsed definition or the error.
StructuralParse ==
    CASE args.fam = "custom" -> buildCustomWorkout(args.config, os)
      [] args.fam = "singleGoal" ->
            IF ~(ActivityOf(args.config).some /\ IsDict(args.config.goal))
            THEN Err("InvalidConfig", "Missing required fields: activityType, goal")
            ELSE parseWorkoutGoal(args.config.goal)
      [] args.fam = "swimBikeRun" ->
            IF ~IsList(args.config.activities)
            THEN Err("InvalidConfig", "Missing required field: activities")
            ELSE parseSwimBikeRunActivities(args.config.activities.items)

\* C14: a call that failed with ValidationError is a call whose config parsed as a whole;
\* a call on a config with an element that fails parsing failed with that parse error
\* and consulted no capability predicate, whatever the predicates would have answered
\* about its other elements; and every call whose config parsed consulted them.
C14_ParseBeforeCapability ==
    (ret.op \in ValidatingOps /\ os >= IOS17_0) =>
        /\ (Failed(ret.res) /\ ret.res.name = "ValidationError") => StructuralParse.ok
        /\ Failed(StructuralParse) =>
              /\ ret.res = StructuralParse
              /\ ret.res.name # "ValidationError"
              /\ ~ret.caps.used
        /\ StructuralParse.ok => ret.caps.used

\* A custom workout whose warmup has a distance goal, which some platform answer rejects,
\* and whose cooldown has a pace alert with min = -1 was refused for the alert.
C14_Witness ==
    /\ ret.op = "createCustomWorkoutPlan"
    /\ os >= IOS17_0
    /\ IsDict(args.config.warmup)
    /\ args.config.warmup.goal = GoalConfig(JS("distance"), JInt(5), JS("km"))
    /\ \E caps \in CapsInputs : "distance" \notin caps.goals
    /\ IsDict(args.config.cooldown)
    /\ args.config.cooldown.alert = AlertConfig(JS("pace"), Absent, JInt(-1), JInt(5), Absent)
    /\ ret.res.name = "InvalidAlert"
    /\ ~ret.caps.used

MultisportCalled == ret.op = "createSwimBikeRunWorkoutPlan"

\* The leg names a supported activity: running, cycling or swimming in any letter case.
LegRecognized(leg) ==
    /\ IsString(leg.type)
    /\ leg.type.s.low \in {"running", "cycling", "swimming"}

\* The activity kinds the legs of the config name, in the order of the config.
KindsInOrder == [i \in 1..Len(LegConfigs) |-> LegConfigs[i].type.s.low]

\* C15: on iOS 17+ createSwimBikeRunWorkoutPlan returns a plan exactly when activities is
\* a list, every leg names running, cycling or swimming in any letter case and
\* supportsActivityOrdering accepts these activities in the order of the config; the plan
\* holds them in that order.  A leg with another type or none fails the call with
\* InvalidConfig, a rejected ordering with ValidationError, and then no plan is returned,
\* no plan object exists and no plan id is taken.
C15_MultisportGate ==
    (MultisportCalled /\ os >= IOS17_0) =>
        /\ ret.res.ok <=>
              /\ IsList(args.config.activities)
              /\ \A i \in 1..Len(LegConfigs) : LegRecognized(LegConfigs[i])
              /\ ret.caps.used
              /\ KindsInOrder \in ret.caps.orderings
        /\ ret.res.ok =>
              /\ ret.plan.some
              /\ ActivityKinds(LegsBuilt) = KindsInOrder
              /\ ret.res.v \in plans
        /\ Failed(ret.res) =>
              /\ ret.plan = NoValue
              /\ plans = {}
              /\ nextUuid = 1
              /\ ret.res.name =
                    IF /\ IsList(args.config.activities)
                       /\ \A i \in 1..Len(LegConfigs) : LegRecognized(LegConfigs[i])
                    THEN "ValidationError" ELSE "InvalidConfig"

\* A plan was built from a swim, a ride and a run in that order while the platform accepts
\* the orderings that start with a swim and not the one that starts with a run.
C15_Witness ==
    /\ MultisportCalled
    /\ ret.res.ok
    /\ LegConfigs = <<SwimLeg, BikeLeg, RunLeg>>
    /\ <<"running", "cycling", "swimming">> \notin ret.caps.orderings
    /\ ActivityKinds(LegsBuilt) = <<"swimming", "cycling", "running">>

\* A step config with its goal written out where it is left out.
StepWithDefaults(config) ==
    IF ~IsDict(config) THEN config
    ELSE [config EXCEPT !.goal = IF @ = Absent THEN GoalConfig(JS("open"), Absent, Absent)
                                 ELSE @]

\* An interval step config with goal and purpose written out where they are left out.
IntervalStepWithDefaults(config) ==
    [StepWithDefaults(config) EXCEPT !.purpose = IF @ = Absent THEN JS("work") ELSE @]

\* A block config with iterations written out where it is left out, and so its steps.
BlockWithDefaults(config) ==
    [config EXCEPT
        !.iterations = IF @ = Absent THEN JInt(1) ELSE @,
        !.steps = IF IsList(@)
                  THEN JList([i \in 1..Len(@.items) |-> IntervalStepWithDefaults(@.items[i])])
                  ELSE @]

\* A custom workout config with every omitted goal, purpose and iterations written out.
ConfigWithDefaults(config) ==
    [config EXCEPT
        !.warmup = StepWithDefaults(@),
        !.cooldown = StepWithDefaults(@),
        !.blocks = IF IsList(@)
                   THEN JList([i \in 1..Len(@.items) |-> BlockWithDefaults(@.items[i])])
                   ELSE @]

\* The config leaves out a goal, a purpose or an iterations count.
OmitsDefaults(config) == ConfigWithDefaults(config) # config

\* C16: a custom workout config parses to the definition that the same config parses to
\* with its defaults written out (iterations 1 for a block without iterations, goal
\* {type: open} for a warmup, cooldown or interval step without goal, purpose work for an
\* interval step without purpose), or fails with the same error; the workout of the plan
\* an operation built is that definition.
C16_OmittedEqualsDefault ==
    (CustomCalled /\ os >= IOS17_0) =>
        /\ buildCustomWorkout(args.config, os)
              = buildCustomWorkout(ConfigWithDefaults(args.config), os)
        /\ ret.plan.some =>
              ret.plan.v.workout = buildCustomWorkout(ConfigWithDefaults(args.config), os).v

\* A plan was built from a config whose warmup has no goal and whose block has neither
\* iterations nor, in its first step, goal or purpose.
C16_Witness ==
    /\ ret.op = "createCustomWorkoutPlan"
    /\ ret.res.ok
    /\ args.config.warmup = StepConfig(Absent, Absent, Absent)
    /\ args.config.blocks =
          JList(<<BlockConfig(Absent, JList(<<StepConfig(Absent, Absent, Absent),
                                              RecoveryStep>>))>>)
    /\ ret.plan.v.workout.warmup.goal = OpenGoal
    /\ ret.plan.v.workout.blocks[1].iterations = 1
    /\ ret.plan.v.workout.blocks[1].steps[1] =
          [purpose |-> "work", step |-> WorkoutStep(OpenGoal, NoAlert)]


(***************************************************************************)
(* C18.  Date components are passed through unmodified.                    *)
(***************************************************************************)
DateFieldNames == {"year", "month", "day", "hour", "minute"}

\* A date dictionary made of a subset of the five fields, each holding an integer
IntegerDate(dict) == \A f \in DateFieldNames : dict[f] = Absent \/ IsInt(dict[f])

SchedulingOps ==
    {"scheduleWorkout", "scheduleSingleGoalWorkout", "schedulePacerWorkout", "scheduleAndSync"}

\* The native components hold exactly the fields of the dictionary, with the same values
SameFields(components, dict) ==
    \A f \in DateFieldNames :
        /\ components[f].some <=> dict[f] # Absent
        /\ components[f].some => dict[f] = JNum(components[f].v, 1)

\* C18: after a successful scheduling call on a date made of integer fields, the entry
\* handed to the scheduler has exactly those fields with the same values; and every entry
\* that getScheduledWorkouts reports has exactly the fields and values of the scheduler's
\* entry, so that the reported date is the date that was passed in.
C18_DatePassedThrough ==
    /\ (~Idle /\ ret.op \in SchedulingOps /\ ret.res.ok /\ IntegerDate(args.date))
          => SameFields(scheduled[Len(scheduled)].date, args.date)
    /\ (~Idle /\ ret.op = "getScheduledWorkouts" /\ ret.res.ok)
          => /\ Len(ret.res.v.items) = Len(scheduled)
             /\ \A i \in 1..Len(scheduled) :
                   SameFields(scheduled[i].date, ret.res.v.items[i].date)

C18_Witness ==
    /\ ~Idle /\ ret.op = "getScheduledWorkouts" /\ ret.res.ok
    /\ Len(ret.res.v.items) = 2
    /\ ret.res.v.items[1].date =
          [year |-> JInt(2026), month |-> JInt(1), day |-> JInt(15), hour |-> JInt(0),
           minute |-> JInt(0)]
    /\ ret.res.v.items[2].date =
          [year |-> Absent, month |-> JInt(1), day |-> Absent, hour |-> Absent,
           minute |-> JInt(30)]


(***************************************************************************)
(* C19.  A plan object keeps the kind, the config and the id it was made   *)
(* with, and scheduling it reports and lists that id.                      *)
(***************************************************************************)
FactoryOps ==
    {"createCustomWorkoutPlan", "createSingleGoalWorkoutPlan", "createPacerWorkoutPlan",
     "createSwimBikeRunWorkoutPlan"}

FactoryKind(op) ==
    CASE op = "createCustomWorkoutPlan" -> "custom"
      [] op = "createSingleGoalWorkoutPlan" -> "singleGoal"
      [] op = "createPacerWorkoutPlan" -> "pacer"
      [] op = "createSwimBikeRunWorkoutPlan" -> "swimBikeRun"

\* C19: a successful create*WorkoutPlan call on config c returns a plan object whose
\* export() is the factory's kind, c and the id of the plan it wraps; every plan object the
\* caller holds, at any later point, exports the kind and id of the plan it wraps and a
\* config that builds that plan's workout; export() called on it returns exactly that; a
\* successful scheduleAndSync returns the exported id and appends an entry that the list
\* of scheduled workouts shows under that id.
C19_PlanIdentity ==
    /\ (~Idle /\ ret.op \in FactoryOps /\ ret.res.ok)
          => /\ ret.res.v \in plans
             /\ export(ret.res.v) =
                   [id |-> uuidString(ret.plan.v.id), kind |-> FactoryKind(ret.op),
                    config |-> args.config]
    /\ \A p \in plans :
          /\ export(p).kind = p.planHandle.kind
          /\ export(p).kind \in {"custom", "singleGoal", "pacer", "swimBikeRun"}
          /\ export(p).id = uuidString(p.planHandle.id)
          /\ Ok(p.planHandle.workout) \in BuiltFrom(p.planHandle.kind, export(p).config)
          /\ \A q \in plans : export(q).id = export(p).id => q = p
    /\ (~Idle /\ ret.op = "export")
          => /\ ret.res.ok
             /\ args.config.plan \in plans
             /\ ret.res.v.id = uuidString(args.config.plan.planHandle.id)
             /\ ret.res.v.kind = args.config.plan.planHandle.kind
             /\ ret.res.v.config = args.config.plan.sourceConfig
    /\ (~Idle /\ ret.op = "scheduleAndSync" /\ ret.res.ok)
          => /\ ret.res.v.id = export(args.config.plan).id
             /\ Len(scheduled) >= 1
             /\ uuidString(scheduled[Len(scheduled)].id) = export(args.config.plan).id
             /\ ScheduledWorkoutsList(scheduled)[Len(scheduled)].id =
                   export(args.config.plan).id
    /\ (~Idle /\ ret.op = "getScheduledWorkouts" /\ ret.res.ok)
          => \A i \in 1..Len(scheduled) :
                ret.res.v.items[i].id = uuidString(scheduled[i].id)

C19_Witness ==
    /\ ~Idle /\ ret.op = "scheduleAndSync" /\ ret.res.ok
    /\ args.config.plan.kind = "singleGoal"
    /\ export(args.config.plan).config = ValidSingleGoalConfig
    /\ ret.res.v.id = uuidString(2)
    /\ Len(scheduled) = 2
    /\ scheduled[1].id = 1
    /\ scheduled[2].id = 2
    /\ Cardinality(plans) = 2


(***************************************************************************)
(* C20.  Only a successful scheduling call adds a scheduled workout.       *)
(***************************************************************************)
NonPersistingOps ==
    {"createCustomWorkout", "createSingleGoalWorkout", "createPacerWorkout", "supportsGoal"}
        \cup FactoryOps

\* A call returns in this step
Returns == ret = NoCall /\ ret' # NoCall

\* The step puts an entry among the scheduled workouts
AddsEntry ==
    \/ Len(scheduled') > Len(scheduled)
    \/ \E i \in 1..Len(scheduled') : \A j \in 1..Len(scheduled) : scheduled'[i] # scheduled[j]

\* C20: a step in which a validate-only operation, supportsGoal or a plan factory returns,
\* with a value or with an error, leaves the scheduled workouts as they were; a step that
\* adds an entry is the successful return of scheduleWorkout, scheduleSingleGoalWorkout,
\* schedulePacerWorkout or scheduleAndSync and adds exactly one entry at the end; and a
\* scheduling call that fails adds nothing.
C20_OnlySchedulingPersists ==
    [][ /\ (Returns /\ ret'.op \in NonPersistingOps) => scheduled' = scheduled
        /\ AddsEntry => /\ Returns
                        /\ ret'.op \in SchedulingOps
                        /\ ret'.res.ok
                        /\ Len(scheduled') = Len(scheduled) + 1
                        /\ SubSeq(scheduled', 1, Len(scheduled)) = scheduled
        /\ (Returns /\ ret'.op \in SchedulingOps /\ ~ret'.res.ok) => scheduled' = scheduled
      ]_vars

C20_Witness ==
    /\ ~Idle /\ ret.op = "createSingleGoalWorkoutPlan" /\ ret.res.ok
    /\ Len(scheduled) = 1
    /\ scheduled[1].id = 1
    /\ ret.plan.v.id = 2
    /\ plans = {ret.res.v}


(***************************************************************************)
(* C21.  What a plan hook exposes once the creation for its current config *)
(* has settled.                                                            *)
(***************************************************************************)
\* The run of the effect for the current configKey
CurrentRun == planHook.runs[Len(planHook.runs)]

\* The hook is mounted, the effect of the render with its current config has run, and the
\* run for that config is not waiting for createPlan
CurrentSettled == planHook.mounted /\ ~planHook.effects /\ CurrentRun.outcome # "pending"

\* C21: when the hook is mounted, the effect for the current config has run and the
\* creation for the current config has settled, plan
\* is non-null exactly when the config is non-null and createPlan resolved (and is then the
\* handle it resolved with), error is non-null exactly when createPlan rejected (and is
\* then what it rejected with), and isLoading is false; with a null or undefined config
\* plan and error are null and isLoading is false.
C21_SettledResult ==
    CurrentSettled =>
       /\ planHook.plan # NoPlan <=> (~Falsy(planHook.config) /\ CurrentRun.outcome = "plan")
       /\ planHook.plan # NoPlan =>
             /\ planHook.plan = CurrentRun.handle
             /\ planHook.plan.sourceConfig = planHook.config
             /\ Ok(planHook.plan.planHandle.workout)
                   \in BuiltFrom(planHook.kind, planHook.config)
       /\ planHook.error # NoError <=> CurrentRun.outcome = "error"
       /\ planHook.error # NoError => planHook.error \in BuiltFrom(planHook.kind, planHook.config)
       /\ planHook.isLoading = FALSE
       /\ Falsy(planHook.config) =>
             planHook.plan = NoPlan /\ planHook.error = NoError /\ CurrentRun.outcome = "none"

C21_Witness ==
    /\ CurrentSettled
    /\ Len(planHook.runs) = 3
    /\ planHook.runs[1].outcome = "plan"
    /\ planHook.runs[2].outcome = "none"
    /\ planHook.runs[3].outcome = "error"
    /\ planHook.kind = "swimBikeRun"
    /\ planHook.plan = NoPlan
    /\ planHook.error.name = "InvalidConfig"
    /\ planHook.isLoading = FALSE


(***************************************************************************)
(* C22.  Every handle createPlan returned is released at most once, and    *)
(* exactly once when the hook is gone and nothing is pending.              *)
(***************************************************************************)
\* The ids of the handles the createPlan calls of the hook resolved with
HandlesReturned ==
    { planHook.runs[i].handle.planHandle.id :
         i \in { j \in 1..Len(planHook.runs) : planHook.runs[j].outcome = "plan" } }

NothingPending == \A i \in 1..Len(planHook.runs) : planHook.runs[i].outcome # "pending"

\* C22: at any point after the first render, release() has been called at most once on
\* every handle createPlan returned, and on no other handle; once the hook is unmounted and
\* no createPlan call is pending, it has been called exactly once on each of them.
C22_ReleasedExactlyOnce ==
    planHook # NotMounted =>
       /\ DOMAIN planHook.released = HandlesReturned
       /\ HandlesReturned = { p.planHandle.id : p \in plans }
       /\ \A id \in HandlesReturned : planHook.released[id] <= 1
       /\ (~planHook.mounted /\ NothingPending) =>
             \A id \in HandlesReturned : planHook.released[id] = 1

C22_Witness ==
    /\ planHook # NotMounted
    /\ ~planHook.mounted
    /\ NothingPending
    /\ Len(planHook.runs) = 3
    /\ \A i \in 1..3 : planHook.runs[i].outcome = "plan"
    /\ planHook.runs[1].handle.planHandle.id = 3
    /\ planHook.runs[3].handle.planHandle.id = 1
    /\ \A id \in 1..3 : planHook.released[id] = 1


(***************************************************************************)
(* C24.  Whether the plan a mounted hook exposes can be a released handle. *)
(***************************************************************************)
\* C24 (as stated): while the hook is mounted, the plan it exposes is null or a handle on
\* which release() has not been called.
C24_AsStated ==
    (planHook # NotMounted /\ planHook.mounted /\ planHook.plan # NoPlan)
       => planHook.released[planHook.plan.planHandle.id] = 0


(***************************************************************************)
(* C25.  Whether a createPlan call of a replaced config, or of an          *)
(* unmounted hook, can settle into the hook's state.                       *)
(***************************************************************************)
\* Run i was started for a config that has since been replaced (a later run exists, or a
\* render with another configKey has returned and its effect is due), or the hook is
\* unmounted
Replaced(i) == i < Len(planHook.runs) \/ planHook.effects \/ ~planHook.mounted

\* In this step the createPlan call of run i settles
Settles(i) == planHook.runs[i].outcome = "pending" /\ planHook'.runs[i].outcome # "pending"

\* C25 (as stated): a step in which a createPlan call settles after its config was
\* replaced or the hook unmounted leaves plan, error and isLoading as they were, and the
\* handle it resolved with, if any, is not the exposed plan.
C25_AsStated ==
    [][ planHook # NotMounted =>
          \A i \in 1..Len(planHook.runs) :
             (Replaced(i) /\ Settles(i)) =>
                /\ planHook'.plan = planHook.plan
                /\ planHook'.error = planHook.error
                /\ planHook'.isLoading = planHook.isLoading
                /\ planHook'.runs[i].outcome = "plan" =>
                      planHook'.plan # planHook'.runs[i].handle
      ]_vars


(***************************************************************************)
(* C23.  schedule(plan, date) of useScheduledWorkouts: schedule, then      *)
(* reload, then resolve with the id.                                       *)
(***************************************************************************)
ScheduleCalls ==
    IF workoutsHook = NotMounted THEN {}
    ELSE { i \in 1..Len(workoutsHook.calls) : workoutsHook.calls[i].fn = "schedule" }

\* Call i moves to the phase in this step
Becomes(i, phase) ==
    workoutsHook.calls[i].phase # phase /\ workoutsHook'.calls[i].phase = phase

\* No call of remove or removeAll has been made
NothingRemoved ==
    \A j \in 1..Len(workoutsHook.calls) : workoutsHook.calls[j].fn \notin {"remove", "removeAll"}

\* The ids in workouts, and the ids of the plans the scheduler holds
ListedIds == { workoutsHook.workouts[k].id : k \in 1..Len(workoutsHook.workouts) }

ScheduledIds == { uuidString(scheduled[k].id) : k \in 1..Len(scheduled) }

C26_AsStated ==
    (workoutsHook # NotMounted /\ \E i \in 1..Len(workoutsHook.calls) :
                                    InFlight(workoutsHook.calls[i]))
       => workoutsHook.isLoading


(***************************************************************************)
(* C27.  Whether workouts agrees with the scheduler once every call has    *)
(* succeeded.                                                              *)
(***************************************************************************)
\* The effect of the hook has run and every call made so far has resolved
AllSucceeded ==
    /\ workoutsHook # NotMounted
    /\ ~workoutsHook.effects
    /\ \A i \in 1..Len(workoutsHook.calls) : workoutsHook.calls[i].phase = "resolved"

\* C27 (as stated): once no call is in flight, all calls having succeeded, workouts holds
\* exactly the ids the scheduler holds.
C27_AsStated == AllSucceeded => ListedIds = ScheduledIds


(***************************************************************************)
(* C28.  What removeScheduledWorkout(id) leaves in the scheduler.          *)
(***************************************************************************)
RemoveReturned == ~Idle /\ ret.op = "removeScheduledWorkout" /\ Available(os)

\* The ids getScheduledWorkouts lists
IdsListed ==
    { ScheduledWorkoutsList(scheduled)[k].id : k \in 1..Len(scheduled) }

\* C28 (as stated): removeScheduledWorkout(id) fails with InvalidID when id is not a UUID;
\* when it fails with NotFound no scheduled workout has that id; when it returns true,
\* getScheduledWorkouts lists no entry with that id, also when the plan had been scheduled
\* at several dates.
C28_AsStated ==
    RemoveReturned =>
       /\ ~UUID(args.config.id).some => (~ret.res.ok /\ ret.res.name = "InvalidID")
       /\ (~ret.res.ok /\ UUID(args.config.id).some) =>
             /\ ret.res.name = "NotFound"
             /\ uuidString(UUID(args.config.id).v) \notin IdsListed
       /\ ret.res.ok => uuidString(UUID(args.config.id).v) \notin IdsListed


(***************************************************************************)
(* C29.  Whether a range with lower bound above upper bound can be formed. *)
(***************************************************************************)
\* min and max are numbers and min > max
BoundsInverted(config) ==
    BothBounds(config) /\ ~RLe(NumOf(config.min), NumOf(config.max))

\* C29 (as stated): every range alert the parser returns has lower bound <= upper bound,
\* and an alert config with min > max is rejected with an error or parsed to something
\* that is no range (no alert, or the heart-rate zone alert): the parser never forms the
\* range min...max (for pace, distance/max...distance/min) with its lower bound above its
\* upper bound.
C29_AsStated ==
    AlertParsed =>
       /\ (ret.res.ok /\ "lo" \in DOMAIN ret.res.v) => RLe(ret.res.v.lo, ret.res.v.hi)
       /\ BoundsInverted(args.config) =>
             \/ ret.res.ok /\ "lo" \notin DOMAIN ret.res.v
             \/ ~ret.res.ok /\ ret.res.name # "Trap"

====
